---- MODULE Spec2Model ----
(***************************************************************************)
(* gpt-rag-ui: the chat turn of src/app.py (handle_message), the reference *)
(* resolver it calls, and the orchestrator stream client it consumes.      *)
(*                                                                         *)
(* Text is modelled character by character: a Python str is a sequence of  *)
(* one-character strings, so that chunk boundaries, the sentinel, the      *)
(* conversation-id prefix and the reference markup are what the code sees. *)
(***************************************************************************)
EXTENDS Integers, Sequences, FiniteSets, TLC

(***************************************************************************)
(* Python str primitives used by the code.                                 *)
(***************************************************************************)
\* Python None, kept apart from every str (a str is a sequence of characters)
None == <<"<None>">>

\* feedback.py:86: feedback_msg is None (a message handle is its position
\* in the order of creation, 1 and up)
NoMessage == 0

\* feedback.py:87: last_feedback_context is None
NoContext == [set |-> FALSE]

\* a session that is running no feedback callback
NoTask == [pc |-> "idle"]

\* datalayer.py:49-50: _credential is None, _cosmos_client is None (a
\* credential and a client are numbered by their order of construction)
NoCredential == 0

NoClient == 0

\* no call of a data layer method
NoCall == [method |-> "none"]

\* truthiness of an Optional[str]: None and "" are falsy
Truthy(x) == x # None /\ x # <<>>

Whitespace == {" ", "\t", "\n", "\r", "\f"}

UpperCase == <<"A", "B", "C", "D", "E", "F", "G", "H", "I", "J", "K", "L", "M", "N", "O", "P", "Q", "R", "S", "T", "U", "V", "W", "X", "Y", "Z">>

LowerCase == <<"a", "b", "c", "d", "e", "f", "g", "h", "i", "j", "k", "l", "m", "n", "o", "p", "q", "r", "s", "t", "u", "v", "w", "x", "y", "z">>

Digits == {"0", "1", "2", "3", "4", "5", "6", "7", "8", "9"}

Letters == {UpperCase[i] : i \in 1..26} \cup {LowerCase[i] : i \in 1..26}

HexDigits == Digits \cup {"a", "b", "c", "d", "e", "f", "A", "B", "C", "D", "E", "F"}

Min(a, b) == IF a < b THEN a ELSE b

Max(a, b) == IF a > b THEN a ELSE b

\* str.lower() on one character
LowerChar(c) ==
    IF \E i \in 1..26 : UpperCase[i] = c
    THEN LowerCase[CHOOSE i \in 1..26 : UpperCase[i] = c]
    ELSE c

\* str.lower()
Lower(s) == [i \in 1..Len(s) |-> LowerChar(s[i])]

\* s[a:b] with 0-based, end-exclusive Python indices (0 <= a, b <= len)
Slice(s, a, b) == SubSeq(s, a + 1, b)

\* s.startswith(p)
StartsWith(s, p) == Len(s) >= Len(p) /\ SubSeq(s, 1, Len(p)) = p

\* s.endswith(p)
EndsWith(s, p) == Len(s) >= Len(p) /\ SubSeq(s, Len(s) - Len(p) + 1, Len(s)) = p

\* s.find(sub): lowest 0-based index of sub in s, -1 when absent
Find(s, sub) ==
    LET hits == {i \in 0..(Len(s) - Len(sub)) : SubSeq(s, i + 1, i + Len(sub)) = sub}
    IN IF hits = {} THEN -1 ELSE CHOOSE i \in hits : \A j \in hits : i <= j

\* sub in s
Contains(s, sub) == Find(s, sub) # -1

\* s.replace(old, new): leftmost, non-overlapping occurrences
RECURSIVE Replace(_, _, _)
Replace(s, old, new) ==
    LET idx == Find(s, old)
    IN IF idx = -1
       THEN s
       ELSE Slice(s, 0, idx) \o new \o Replace(Slice(s, idx + Len(old), Len(s)), old, new)

\* s.lstrip(chars)
LStripChars(s, chars) ==
    LET keep == {i \in 1..Len(s) : s[i] \notin chars}
    IN IF keep = {} THEN <<>>
       ELSE SubSeq(s, CHOOSE i \in keep : \A j \in keep : i <= j, Len(s))

\* s.rstrip(chars)
RStripChars(s, chars) ==
    LET keep == {i \in 1..Len(s) : s[i] \notin chars}
    IN IF keep = {} THEN <<>>
       ELSE SubSeq(s, 1, CHOOSE i \in keep : \A j \in keep : i >= j)

\* s.strip()
Strip(s) == RStripChars(LStripChars(s, Whitespace), Whitespace)

\* "".join(parts)
RECURSIVE Join(_)
Join(parts) == IF parts = <<>> THEN <<>> ELSE Head(parts) \o Join(Tail(parts))

\* the characters of a text
Chars(s) == {s[i] : i \in 1..Len(s)}

(***************************************************************************)
(* src/constants.py                                                        *)
(***************************************************************************)
TERMINATE_TOKEN == <<"T", "E", "R", "M", "I", "N", "A", "T", "E">>

SUPPORTED_EXTENSIONS ==
    { <<"p", "d", "f">>, <<"b", "m", "p">>, <<"j", "p", "e", "g">>, <<"j", "p", "g">>,
      <<"p", "n", "g">>, <<"t", "i", "f", "f">>, <<"x", "l", "s", "x">>,
      <<"d", "o", "c", "x">>, <<"p", "p", "t", "x">>, <<"m", "d">>, <<"t", "x", "t">>,
      <<"h", "t", "m", "l">>, <<"s", "h", "t", "m", "l">>, <<"h", "t", "m">>,
      <<"p", "y">>, <<"c", "s", "v">>, <<"x", "m", "l">>, <<"j", "s", "o", "n">>,
      <<"v", "t", "t">> }

\* the group lengths of the UUID pattern: 8-4-4-4-12
UuidLen == 36

UuidDashes == {9, 14, 19, 24}

\* UUID_REGEX.match(chunk): ^\s*(8hex-4hex-4hex-4hex-12hex)\s+ , ignoring case.
\* Returns [ok, conv_id, end] with end the 0-based match.end().
UUID_REGEX_match(chunk) ==
    LET Matched(lead, body, trail) ==
            IF /\ Len(body) = UuidLen
               /\ \A i \in 1..UuidLen :
                     IF i \in UuidDashes THEN body[i] = "-" ELSE body[i] \in HexDigits
               /\ trail >= 1
            THEN [ok |-> TRUE, conv_id |-> body, end |-> lead + UuidLen + trail]
            ELSE [ok |-> FALSE, conv_id |-> <<>>, end |-> 0]
        Trailing(rest) == Len(rest) - Len(LStripChars(rest, Whitespace))
        After(lead) ==
            Matched(lead,
                    Slice(chunk, lead, Min(Len(chunk), lead + UuidLen)),
                    Trailing(Slice(chunk, Min(Len(chunk), lead + UuidLen), Len(chunk))))
    IN After(Len(chunk) - Len(LStripChars(chunk, Whitespace)))

\* whether href is  <one or more non-")" characters> "." <supported extension>
EndsWithSupportedExtension(href) ==
    \E e \in SUPPORTED_EXTENSIONS :
        /\ Len(href) >= Len(e) + 2
        /\ href[Len(href) - Len(e)] = "."
        /\ Lower(SubSeq(href, Len(href) - Len(e) + 1, Len(href))) = e

\* first 1-based index >= from at which c occurs in text, 0 when there is none
IndexFrom(text, c, from) ==
    LET hits == {i \in from..Len(text) : text[i] = c}
    IN IF hits = {} THEN 0 ELSE CHOOSE i \in hits : \A j \in hits : i <= j

\* REFERENCE_REGEX anchored at 1-based position i:
\*   \[([^\]]+)\]\(([^)]+\.(?:ext|...))\)
\* The display text runs to the first "]" and the target to the first ")".
REFERENCE_REGEX_match_at(text, i) ==
    LET Closed(j, k) ==
            IF /\ text[i] = "["
               /\ j > i + 1
               /\ j + 1 <= Len(text)
               /\ text[j + 1] = "("
               /\ k > j + 2
               /\ EndsWithSupportedExtension(SubSeq(text, j + 2, k - 1))
            THEN [ok |-> TRUE, display_text |-> SubSeq(text, i + 1, j - 1),
                  raw_href |-> SubSeq(text, j + 2, k - 1), first |-> i, last |-> k]
            ELSE [ok |-> FALSE, display_text |-> <<>>, raw_href |-> <<>>,
                  first |-> i, last |-> i]
        Bracket(j) == Closed(j, IF j = 0 THEN 0 ELSE IndexFrom(text, ")", j + 2))
    IN Bracket(IndexFrom(text, "]", i + 1))

\* REFERENCE_REGEX.search(text, pos): the 1-based start of the leftmost match
\* at or after position from, 0 when there is none
REFERENCE_REGEX_search(text, from) ==
    LET starts == {i \in from..Len(text) : text[i] = "[" /\ REFERENCE_REGEX_match_at(text, i).ok}
    IN IF starts = {} THEN 0 ELSE CHOOSE i \in starts : \A j \in starts : i <= j

\* REFERENCE_REGEX.finditer(text): the non-overlapping matches, left to right
RECURSIVE REFERENCE_REGEX_finditer(_, _)
REFERENCE_REGEX_finditer(text, from) ==
    LET Found(m) == <<m>> \o REFERENCE_REGEX_finditer(text, m.last + 1)
        At(i) == IF i = 0 THEN <<>> ELSE Found(REFERENCE_REGEX_match_at(text, i))
    IN At(REFERENCE_REGEX_search(text, from))

(***************************************************************************)
(* State.                                                                  *)
(***************************************************************************)
VARIABLES
    user_authorized,          \* cl.user_session "user": metadata["authorized"]
    session_conversation_id,  \* cl.user_session "conversation_id"
    message_id,               \* message.id
    message_content,          \* message.content
    payload,                  \* the JSON body of the request to the orchestrator
    headers,                  \* the headers of the request to the orchestrator
    response,                 \* what the orchestrator answers: [status, body]
    blobs,                    \* the storage account: the <<container, blob>> that exist
    sas_available,            \* whether a user delegation key can be obtained
    pc,                       \* position of handle_message
    generator,                \* state of the call_orchestrator_stream generator
    upstream,                 \* events of the response body not yet read
    conversation_id,          \* handle_message locals ...
    buffer,
    full_text,
    references,
    chunk_count,
    first_content_seen,
    loop_exit,                \* how the chunk loop was left
    exception,                \* the exception caught at app.py:357 or leaving handle_message
    streamed,                 \* the arguments of response_msg.stream_token, in order
    content,                  \* response_msg.content
    resolver_log,             \* the calls of replace_source_reference_links:
                              \* [site, text, out, raised, calls]
    requests,                 \* HTTP requests sent to the orchestrator in this turn
    close_outcome,            \* how generator.aclose() of app.py:374 ended
    selection,                \* a call of the container selection of
                              \* resolve_reference_href: its inputs and result
    turns,                    \* the handle_message turns of concurrent sessions
    FEEDBACK_RATING,          \* feedback.py:10, read once at import
    feedback_msg,             \* feedback.py:86, the one handle of the process
    last_feedback_context,    \* feedback.py:87, the one context of the process
    feedback_tasks,           \* the feedback callback each session is running
    messages,                 \* the feedback form messages created, in order
    feedback_log,             \* the feedback callbacks that have returned
    credential,               \* datalayer.py:49, _credential
    cosmos_client,            \* datalayer.py:50, _cosmos_client
    init_lock,                \* datalayer.py:51, _init_lock: who holds it
    client_calls,             \* the get_cosmos_client calls of each caller
    created,                  \* the credentials and clients constructed so far
    conversations,            \* the documents of the conversations container
    data_layer_call,          \* a call of OrchestratorDataLayer: arguments, result
    threads_container,        \* CosmosDBDataLayer: the <name>_items container
    thread_list_container,    \* CosmosDBDataLayer: the <name>_thread_list container
    thread_tasks,             \* the update_thread and delete_thread calls made
    feedback_call             \* an upsert_feedback call and the delete_feedback
                              \* call on the id it returned

\* the closure of register_feedback_handlers and what its callbacks do
feedback_vars == <<FEEDBACK_RATING, feedback_msg, last_feedback_context,
                   feedback_tasks, messages, feedback_log>>

\* the singletons of datalayer.py and the calls of get_cosmos_client
client_vars == <<credential, cosmos_client, init_lock, client_calls, created>>

\* the conversations container and a call of OrchestratorDataLayer
conversations_vars == <<conversations, data_layer_call>>

\* the containers of CosmosDBDataLayer and the calls on them
threads_vars == <<threads_container, thread_list_container, thread_tasks, feedback_call>>

\* the state of the components other than the chat turn
component_vars == <<feedback_vars, client_vars, conversations_vars, threads_vars>>

\* the state of the chat turn, of the container selection and of the turns
\* of concurrent sessions
chat_vars == <<user_authorized, session_conversation_id, message_id, message_content, payload,
          headers, response, blobs, sas_available, pc, generator, upstream, conversation_id, buffer, full_text,
          references, chunk_count, first_content_seen, loop_exit, exception, streamed,
          content, resolver_log, requests, close_outcome, selection, turns>>

vars == <<chat_vars, component_vars>>

(***************************************************************************)
(* Configuration read at import time (src/app.py:26-42).                   *)
(***************************************************************************)
STORAGE_ACCOUNT_NAME == <<"a", "c", "c", "t">>

DOCUMENTS_CONTAINER == <<"d", "o", "c", "s">>

IMAGES_CONTAINER == <<"i", "m", "g", "s">>

IMAGE_EXTENSIONS ==
    { <<"b", "m", "p">>, <<"j", "p", "e", "g">>, <<"j", "p", "g">>, <<"p", "n", "g">>,
      <<"t", "i", "f", "f">> }

(***************************************************************************)
(* urllib.parse                                                            *)
(***************************************************************************)
SchemeChars == Letters \cup Digits \cup {"+", "-", "."}

\* text.split(c, 1): <<before, after>>; after is None when c does not occur
SplitOnce(text, c) ==
    LET At(i) == IF i = 0 THEN <<text, None>>
                 ELSE <<SubSeq(text, 1, i - 1), SubSeq(text, i + 1, Len(text))>>
    IN At(IndexFrom(text, c, 1))

\* ipaddress.ip_address(hostname) is an IPv6Address, for addresses written in
\* hexadecimal groups (no embedded IPv4 part, no zone id)
IsIPv6Address(hostname) ==
    LET colons == {i \in 1..Len(hostname) : hostname[i] = ":"}
        pairs == {i \in colons : i + 1 \in colons}
    IN /\ \A i \in 1..Len(hostname) : hostname[i] \in HexDigits \cup {":"}
       /\ \A i \in 1..(Len(hostname) - 4) :
              \E j \in i..(i + 4) : hostname[j] = ":"
       /\ Cardinality(pairs) <= 1
       /\ 1 \in colons => 1 \in pairs
       /\ Len(hostname) \in colons => Len(hostname) - 1 \in pairs
       /\ IF pairs = {} THEN Cardinality(colons) = 7
          ELSE Cardinality(colons) \in 2..7

\* _check_bracketed_host(hostname): whether the host between the brackets of a
\* netloc is accepted (an IPvFuture or an IPv6 address)
BracketedHostValid(hostname) ==
    IF StartsWith(hostname, <<"v">>)
    THEN \E dot \in 3..(Len(hostname) - 1) :
            /\ hostname[dot] = "."
            /\ \A i \in 2..(dot - 1) : hostname[i] \in HexDigits
    ELSE IsIPv6Address(hostname)

\* urllib.parse.urlsplit(url): [scheme, netloc, path, query, fragment], or
\* ValueError when the netloc has one square bracket without the other or
\* the host between its brackets is no IP literal
urlsplit(raw) ==
    LET Parts(scheme, netloc, frag, qry) ==
            [scheme |-> scheme, netloc |-> netloc, path |-> qry[1],
             query |-> IF qry[2] = None THEN <<>> ELSE qry[2],
             fragment |-> IF frag[2] = None THEN <<>> ELSE frag[2],
             raised |-> "none"]
        Fragment(scheme, netloc, frag) == Parts(scheme, netloc, frag, SplitOnce(frag[1], "?"))
        Rest(scheme, netloc, url) == Fragment(scheme, netloc, SplitOnce(url, "#"))
        NetlocEnd(url) ==
            IF \E i \in 3..Len(url) : url[i] \in {"/", "?", "#"}
            THEN CHOOSE i \in 3..Len(url) :
                    /\ url[i] \in {"/", "?", "#"}
                    /\ \A j \in 3..(i - 1) : url[j] \notin {"/", "?", "#"}
            ELSE Len(url) + 1
        Checked(scheme, netloc, url) ==
            IF \/ ("[" \in Chars(netloc)) # ("]" \in Chars(netloc))
               \/ /\ "[" \in Chars(netloc)
                  /\ ~BracketedHostValid(SplitOnce(SplitOnce(netloc, "[")[2], "]")[1])
            THEN [scheme |-> <<>>, netloc |-> <<>>, path |-> <<>>, query |-> <<>>,
                  fragment |-> <<>>, raised |-> "ValueError"]
            ELSE Rest(scheme, netloc, url)
        Netloc(scheme, url, delim) ==
            Checked(scheme, SubSeq(url, 3, delim - 1), SubSeq(url, delim, Len(url)))
        AfterScheme(scheme, url) ==
            IF StartsWith(url, <<"/", "/">>)
            THEN Netloc(scheme, url, NetlocEnd(url))
            ELSE Rest(scheme, <<>>, url)
        Scheme(url, colon) ==
            IF /\ colon > 0
               /\ url[1] \in Letters
               /\ \A i \in 1..colon : url[i] \in SchemeChars
            THEN AfterScheme(Lower(Slice(url, 0, colon)), Slice(url, colon + 1, Len(url)))
            ELSE AfterScheme(<<>>, url)
        Cleaned(url) == Scheme(url, Find(url, <<":">>))
    IN Cleaned(Replace(Replace(Replace(raw, <<"\t">>, <<>>), <<"\r">>, <<>>), <<"\n">>, <<>>))

\* the printable ASCII characters, code 32 to 126 (the grave accent, code 96,
\* is written "\\x60")
AsciiPrintable == <<" ", "!", "\"", "#", "$", "%", "&", "'", "(", ")", "*", "+", ",", "-", ".", "/", "0", "1", "2", "3", "4", "5", "6", "7", "8", "9", ":", ";", "<", "=", ">", "?", "@", "A", "B", "C", "D", "E", "F", "G", "H", "I", "J", "K", "L", "M", "N", "O", "P", "Q", "R", "S", "T", "U", "V", "W", "X", "Y", "Z", "[", "\\", "]", "^", "_", "\\x60", "a", "b", "c", "d", "e", "f", "g", "h", "i", "j", "k", "l", "m", "n", "o", "p", "q", "r", "s", "t", "u", "v", "w", "x", "y", "z", "{", "|", "}", "~">>

HexChars == <<"0", "1", "2", "3", "4", "5", "6", "7", "8", "9", "A", "B", "C", "D", "E", "F">>

\* value of one hexadecimal digit
HexValue(c) ==
    LET Upper(l) == IF l \in Digits THEN l
                    ELSE UpperCase[CHOOSE i \in 1..26 : LowerCase[i] = l]
        Value(u) == (CHOOSE i \in 1..16 : HexChars[i] = u) - 1
    IN Value(Upper(LowerChar(c)))

\* urllib.parse.unquote(s) for escapes of printable ASCII; the escape of any
\* other byte decodes to a character outside the alphabet, written "\\x".
RECURSIVE unquote(_)
unquote(s) ==
    LET Decoded(code) == IF code \in 32..126 THEN AsciiPrintable[code - 31] ELSE "\\x"
    IN IF s = <<>> THEN <<>>
       ELSE IF /\ s[1] = "%"
               /\ Len(s) >= 3
               /\ s[2] \in HexDigits
               /\ s[3] \in HexDigits
            THEN <<Decoded(16 * HexValue(s[2]) + HexValue(s[3]))>>
                    \o unquote(SubSeq(s, 4, Len(s)))
            ELSE <<s[1]>> \o unquote(Tail(s))

(***************************************************************************)
(* src/connectors/blob.py: class BlobClient                                *)
(***************************************************************************)
\* results of calls that may raise
Return(v) == [raised |-> "none", value |-> v]

Raise(e) == [raised |-> e, value |-> None]

\* a result together with the calls made on blob clients to obtain it
Called(result, calls) == [raised |-> result.raised, value |-> result.value, calls |-> calls]

\* a call of a method of a BlobClient instance
BlobCall(method, blob_client) ==
    [method |-> method, container |-> blob_client.container_name,
     blob |-> blob_client.blob_name]

\* the methods class BlobClient defines
BlobClientMethods == {"__init__", "_get_credential", "download_blob", "generate_sas_url"}

\* BlobClient(blob_url=...): the URL parsed into container and blob name
BlobClient(blob_url) ==
    LET Named(path, container_name) ==
            [file_url |-> blob_url,
             container_name |-> container_name,
             blob_name |-> unquote(SubSeq(path, Len(container_name) + 3, Len(path)))]
        Segment(after, slash) == IF slash = 0 THEN after ELSE SubSeq(after, 1, slash - 1)
        First(after) == Segment(after, IndexFrom(after, "/", 1))
        Parsed(path) == Named(path, First(SubSeq(path, 2, Len(path))))
    IN Parsed(urlsplit(blob_url).path)

\* blob_client.exists(): the attribute lookup on a BlobClient instance.  The
\* class defines no method of that name, so the lookup raises AttributeError.
BlobClient_exists(blob_client) ==
    IF "exists" \in BlobClientMethods
    THEN Return(<<blob_client.container_name, blob_client.blob_name>> \in blobs)
    ELSE Raise("AttributeError")

\* the query string of a user-delegation SAS
SasToken == <<"s", "i", "g", "=", "s">>

\* BlobClient.generate_sas_url: any failure to sign is caught and the
\* original URL returned.
BlobClient_generate_sas_url(blob_client) ==
    IF "generate_sas_url" \notin BlobClientMethods THEN Raise("AttributeError")
    ELSE IF sas_available
         THEN Return(blob_client.file_url \o <<"?">> \o SasToken)
         ELSE Return(blob_client.file_url)

(***************************************************************************)
(* src/app.py: the reference resolver                                      *)
(***************************************************************************)
\* extract_conversation_id_from_chunk(chunk): [conv_id, chunk]
extract_conversation_id_from_chunk(chunk) ==
    LET Result(match) ==
            IF match.ok
            THEN [conv_id |-> match.conv_id, chunk |-> Slice(chunk, match.end, Len(chunk))]
            ELSE [conv_id |-> None, chunk |-> chunk]
    IN Result(UUID_REGEX_match(chunk))

BlobHost == <<".", "b", "l", "o", "b", ".", "c", "o", "r", "e", ".", "w", "i", "n", "d", "o", "w", "s", ".", "n", "e", "t", "/">>

\* f"https://{STORAGE_ACCOUNT_NAME}.blob.core.windows.net/{container}/{blob_name}"
BlobUrl(container, blob_name) ==
    <<"h", "t", "t", "p", "s", ":", "/", "/">> \o STORAGE_ACCOUNT_NAME \o BlobHost
        \o container \o <<"/">> \o blob_name

\* generate_blob_sas_url(container, blob_name): the URL returned or the
\* exception raised, and the calls made on the blob client
generate_blob_sas_url(container, blob_name) ==
    LET Signed(blob_url, blob_client, sas) ==
            Called(IF sas.raised = "AttributeError" THEN Return(blob_url)
                   ELSE IF sas.raised # "none" THEN Raise(sas.raised)
                   ELSE Return(sas.value),
                   <<BlobCall("exists", blob_client),
                     BlobCall("generate_sas_url", blob_client)>>)
        Checked(blob_url, blob_client, found) ==
            IF found.raised # "none"
            THEN Called(Raise(found.raised), <<BlobCall("exists", blob_client)>>)
            ELSE IF ~found.value
            THEN Called(Raise("FileNotFoundError"), <<BlobCall("exists", blob_client)>>)
            ELSE Signed(blob_url, blob_client, BlobClient_generate_sas_url(blob_client))
        Client(blob_url, blob_client) ==
            Checked(blob_url, blob_client, BlobClient_exists(blob_client))
        Url(blob_url) == Client(blob_url, BlobClient(blob_url))
    IN Url(BlobUrl(container, blob_name))

\* path.rsplit(".", 1)[-1].lower() if "." in path else ""
PathExtension(path) ==
    IF \E i \in 1..Len(path) : path[i] = "."
    THEN Lower(SubSeq(path,
                      (CHOOSE i \in 1..Len(path) :
                          path[i] = "." /\ \A j \in (i + 1)..Len(path) : path[j] # ".") + 1,
                      Len(path)))
    ELSE <<>>

\* SelectContainer with the slip of leaving out the elif of app.py:117-118
SelectContainer_without_fallback(extension, documents_container, images_container) ==
    IF extension \in IMAGE_EXTENSIONS /\ images_container # <<>> THEN images_container
    ELSE documents_container

\* the container a relative target is looked up in (app.py:114-118)
SelectContainer(extension, documents_container, images_container) ==
    IF extension \in IMAGE_EXTENSIONS /\ images_container # <<>> THEN images_container
    ELSE IF documents_container = <<>> /\ images_container # <<>> THEN images_container
    ELSE documents_container

\* the blob name of a relative target inside its container (app.py:121-129)
BlobName(path, container) ==
    IF container # <<>> /\ StartsWith(path, container \o <<"/">>)
    THEN SubSeq(path, Len(container) + 2, Len(path))
    ELSE path

\* app.py:140-149: a failure of signing resolves to None; the query and the
\* fragment of the target are appended to the signed URL
resolve_built(sas_url, query, fragment) ==
    Called(IF sas_url.raised # "none" THEN Return(None)
           ELSE IF sas_url.value # <<>> /\ (query # <<>> \/ fragment # <<>>)
                THEN Return(sas_url.value
                        \o (IF Contains(sas_url.value, <<"?">>) THEN <<"&">> ELSE <<"?">>)
                        \o LStripChars(query, {"?"}) \o fragment)
           ELSE Return(sas_url.value),
           sas_url.calls)

\* app.py:131-136: an empty blob name resolves to None, otherwise the blob
\* URL is signed inside the try
resolve_named(container, blob_name, query, fragment) ==
    IF blob_name = <<>> THEN Called(Return(None), <<>>)
    ELSE resolve_built(generate_blob_sas_url(container, blob_name), query, fragment)

\* app.py:112-129: the container is chosen by the extension of the path
resolve_relative(path, query, fragment) ==
    resolve_named(
        SelectContainer(PathExtension(path), DOCUMENTS_CONTAINER, IMAGES_CONTAINER),
        BlobName(path, SelectContainer(PathExtension(path), DOCUMENTS_CONTAINER,
                                       IMAGES_CONTAINER)),
        query, fragment)

\* urllib.parse.unquote(split_href.path.replace("\\", "/")).lstrip("/")
resolve_path(split_href) ==
    LStripChars(unquote(Replace(split_href.path, <<"\\">>, <<"/">>)), {"/"})

\* app.py:102-110: targets with a scheme or a netloc and download routes are
\* passed through; the path of any other target is unquoted
resolve_split(href, split_href) ==
    IF split_href.raised # "none" THEN Called(Raise(split_href.raised), <<>>)
    ELSE IF split_href.scheme # <<>> \/ split_href.netloc # <<>>
         THEN Called(Return(href), <<>>)
    ELSE IF \/ StartsWith(href, <<"/", "a", "p", "i", "/", "d", "o", "w", "n", "l", "o", "a", "d", "/">>)
            \/ StartsWith(href, <<"a", "p", "i", "/", "d", "o", "w", "n", "l", "o", "a", "d", "/">>)
         THEN Called(Return(href), <<>>)
    ELSE resolve_relative(
             resolve_path(split_href),
             IF split_href.query # <<>> THEN <<"?">> \o split_href.query ELSE <<>>,
             IF split_href.fragment # <<>> THEN <<"#">> \o split_href.fragment
             ELSE <<>>)

\* app.py:98-102: an empty target resolves to None, any other is split
resolve_stripped(href) ==
    IF href = <<>> THEN Called(Return(None), <<>>) ELSE resolve_split(href, urlsplit(href))

\* resolve_reference_href(raw_href): the resolved href or None returned, or
\* the exception of urlsplit (app.py:102, outside the try of 135-142), and the
\* calls made on blob clients
resolve_reference_href(raw_href) == resolve_stripped(Strip(raw_href))

\* replacer with the slip of dropping only the link of an unresolved
\* reference: the display text stays in the rewritten text
replacer_keeps_display_text(display_text, resolved_href) ==
    IF resolved_href.raised # "none"
    THEN [text |-> <<>>, references |-> {}, raised |-> resolved_href.raised,
          calls |-> resolved_href.calls]
    ELSE IF Truthy(resolved_href.value)
    THEN [text |-> <<"[">> \o display_text \o <<"]", "(">> \o resolved_href.value
                      \o <<")">>,
          references |-> {resolved_href.value}, raised |-> "none",
          calls |-> resolved_href.calls]
    ELSE [text |-> display_text, references |-> {}, raised |-> "none",
          calls |-> resolved_href.calls]

\* replacer(match) of replace_source_reference_links (app.py:155-168), given
\* what resolve_reference_href gave for the target of the match: the
\* replacement text and what it adds to the reference set
replacer(display_text, resolved_href) ==
    IF resolved_href.raised # "none"
    THEN [text |-> <<>>, references |-> {}, raised |-> resolved_href.raised,
          calls |-> resolved_href.calls]
    ELSE IF Truthy(resolved_href.value)
    THEN [text |-> <<"[">> \o display_text \o <<"]", "(">> \o resolved_href.value
                      \o <<")">>,
          references |-> {resolved_href.value}, raised |-> "none",
          calls |-> resolved_href.calls]
    ELSE [text |-> <<>>, references |-> {}, raised |-> "none",
          calls |-> resolved_href.calls]

RECURSIVE REFERENCE_REGEX_sub(_, _)

\* the text before the match at i, its replacement r and the rest rewritten
sub_spliced(text, from, i, r, rest) ==
    [text |-> SubSeq(text, from, i - 1) \o r.text \o rest.text,
     references |-> r.references \cup rest.references,
     raised |-> rest.raised,
     calls |-> r.calls \o rest.calls]

\* an exception of replacer ends the substitution, otherwise it goes on
\* after the match
sub_replaced(text, from, i, m, r) ==
    IF r.raised # "none" THEN r
    ELSE sub_spliced(text, from, i, r, REFERENCE_REGEX_sub(text, m.last + 1))

\* replacer is called on the match m found at i
sub_found(text, from, i, m) ==
    sub_replaced(text, from, i, m,
                 replacer(m.display_text, resolve_reference_href(m.raw_href)))

\* the next match at or after from is at i (0: there is none)
sub_at(text, from, i) ==
    IF i = 0
    THEN [text |-> SubSeq(text, from, Len(text)), references |-> {}, raised |-> "none",
          calls |-> <<>>]
    ELSE sub_found(text, from, i, REFERENCE_REGEX_match_at(text, i))

\* REFERENCE_REGEX.sub(replacer, text) from 1-based position from on: the text
\* between matches is copied, each match is replaced by replacer's result
REFERENCE_REGEX_sub(text, from) == sub_at(text, from, REFERENCE_REGEX_search(text, from))

\* replace_source_reference_links(text, references): the rewritten text and
\* the hrefs added to references, or the exception a replacer call raised
\* (the hrefs added before it stay in references)
replace_source_reference_links(text) == REFERENCE_REGEX_sub(text, 1)

(***************************************************************************)
(* src/app.py: handle_message                                              *)
(***************************************************************************)
\* normalized_preview[:120]
PreviewLen == 120

\* LooksLikeHtml with the slip of testing for the doctype only
LooksLikeHtml_doctype_only(normalized_preview) ==
    StartsWith(normalized_preview, <<"<", "!", "d", "o", "c", "t", "y", "p", "e">>)

\* the test of app.py:303-308 on the stripped, lower-cased chunk
LooksLikeHtml(normalized_preview) ==
    \/ StartsWith(normalized_preview, <<"<", "!", "d", "o", "c", "t", "y", "p", "e">>)
    \/ StartsWith(normalized_preview, <<"<", "h", "t", "m", "l">>)
    \/ Contains(Slice(normalized_preview, 0, Min(Len(normalized_preview), PreviewLen)),
                <<"<", "h", "t", "m", "l">>)
    \/ Contains(normalized_preview,
                <<"a", "z", "u", "r", "e", " ", "c", "o", "n", "t", "a", "i", "n", "e", "r", " ", "a", "p", "p", "s">>)

\* the message streamed to an unauthorized user (app.py:242-243)
NoAccessMessage == <<"O", "o", "p", "s", "!", " ", "I", "t", " ", "l", "o", "o", "k", "s", " ", "l", "i", "k", "e", " ", "y", "o", "u", " ", "d", "o", "n", "'", "t", " ", "h", "a", "v", "e", " ", "a", "c", "c", "e", "s", "s", " ", "t", "o", " ", "t", "h", "i", "s", " ", "s", "e", "r", "v", "i", "c", "e", ".", " ", "I", "f", " ", "y", "o", "u", " ", "t", "h", "i", "n", "k", " ", "y", "o", "u", " ", "s", "h", "o", "u", "l", "d", ",", " ", "p", "l", "e", "a", "s", "e", " ", "r", "e", "a", "c", "h", " ", "o", "u", "t", " ", "t", "o", " ", "y", "o", "u", "r", " ", "a", "d", "m", "i", "n", "i", "s", "t", "r", "a", "t", "o", "r", " ", "f", "o", "r", " ", "h", "e", "l", "p", ".">>

\* UserErrorMessage with the slip of leaving the message id out
UserErrorMessage_without_id(id) ==
    <<"W", "e", " ", "h", "i", "t", " ", "a", " ", "t", "e", "c", "h", "n", "i", "c", "a", "l", " ", "i", "s", "s", "u", "e", ".">>

\* user_error_message (app.py:358-362)
UserErrorMessage(id) ==
    <<"W", "e", " ", "h", "i", "t", " ", "a", " ", "t", "e", "c", "h", "n", "i", "c", "a", "l", " ", "i", "s", "s", "u", "e", " ", "w", "h", "i", "l", "e", " ", "p", "r", "o", "c", "e", "s", "s", "i", "n", "g", " ", "y", "o", "u", "r", " ", "r", "e", "q", "u", "e", "s", "t", ".", " ", "P", "l", "e", "a", "s", "e", " ", "c", "o", "n", "t", "a", "c", "t", " ", "t", "h", "e", " ", "a", "p", "p", "l", "i", "c", "a", "t", "i", "o", "n", " ", "s", "u", "p", "p", "o", "r", "t", " ", "t", "e", "a", "m", " ", "a", "n", "d", " ", "s", "h", "a", "r", "e", " ", "r", "e", "f", "e", "r", "e", "n", "c", "e", " ">>
        \o id \o <<".">>

\* the locals of handle_message and the response message, as one record
Locals ==
    [conversation_id |-> conversation_id, buffer |-> buffer, full_text |-> full_text,
     references |-> references, chunk_count |-> chunk_count,
     first_content_seen |-> first_content_seen, streamed |-> streamed,
     content |-> content, resolver_log |-> resolver_log]

\* response_msg.stream_token(token): the token is appended to the content
stream_token(l, token) ==
    [l EXCEPT !.streamed = Append(@, token), !.content = @ \o token]

\* safe_flush_length (app.py:348-351), reached only when no sentinel was found
SafeFlushLength(buf, token_index) ==
    IF token_index # -1
    THEN Len(buf) - (Len(TERMINATE_TOKEN) - 1)
    ELSE Len(buf)

\* whether extraction of the conversation id is attempted on this chunk
\* (app.py:295: on every chunk of the loop)
ExtractionAttempted(l) == TRUE

\* app.py:335-355: at the sentinel the text before it is streamed and the
\* loop is left; otherwise the safe part of the buffer is streamed
process_chunk_flush(l2, token_index, safe_flush_length) ==
    IF token_index # -1
    THEN [locals |-> IF token_index > 0
                     THEN stream_token(l2, Slice(l2.buffer, 0, token_index))
                     ELSE l2,
          outcome |-> "sentinel", exception |-> "none"]
    ELSE IF safe_flush_length > 0
    THEN [locals |-> [stream_token(l2, Slice(l2.buffer, 0, safe_flush_length))
                         EXCEPT !.buffer = Slice(l2.buffer, safe_flush_length,
                                                 Len(l2.buffer))],
          outcome |-> "continue", exception |-> "none"]
    ELSE [locals |-> l2, outcome |-> "continue", exception |-> "none"]

\* app.py:334 and 347-350: the sentinel is searched in the buffer
process_chunk_search(l2, token_index) ==
    process_chunk_flush(l2, token_index, SafeFlushLength(l2.buffer, token_index))

\* the call of replace_source_reference_links at app.py:319, as the claims
\* observe it
process_chunk_log(l1, cleaned_chunk, rewritten) ==
    [l1 EXCEPT !.resolver_log =
                   Append(@, [site |-> "chunk", text |-> cleaned_chunk,
                              out |-> rewritten.text, raised |-> rewritten.raised,
                              calls |-> rewritten.calls])]

\* app.py:319-331: the references of the chunk are rewritten and the rewritten
\* chunk is appended; an exception of the resolver leaves the iteration
process_chunk_rewrite(l1, cleaned_chunk, rewritten) ==
    IF rewritten.raised # "none"
    THEN [locals |-> process_chunk_log(l1, cleaned_chunk, rewritten), outcome |-> "raised",
          exception |-> rewritten.raised]
    ELSE process_chunk_search(
             [process_chunk_log(l1, cleaned_chunk, rewritten)
                 EXCEPT !.references = @ \cup rewritten.references,
                        !.buffer = @ \o rewritten.text,
                        !.full_text = @ \o rewritten.text,
                        !.chunk_count = @ + 1],
             Find(l1.buffer \o rewritten.text, TERMINATE_TOKEN))

\* app.py:301-315: the first chunk with content is tested for an HTML page
process_chunk_preview(l1, cleaned_chunk, normalized_preview) ==
    IF ~l1.first_content_seen /\ normalized_preview # <<>> /\ LooksLikeHtml(normalized_preview)
    THEN [locals |-> l1, outcome |-> "raised", exception |-> "RuntimeError"]
    ELSE process_chunk_rewrite(
             [l1 EXCEPT !.first_content_seen = @ \/ normalized_preview # <<>>],
             cleaned_chunk, replace_source_reference_links(cleaned_chunk))

\* app.py:296-301: the extracted id is kept, escaped newlines are replaced
process_chunk_extracted(l, ex) ==
    process_chunk_preview(
        IF Truthy(ex.conv_id) THEN [l EXCEPT !.conversation_id = ex.conv_id] ELSE l,
        Replace(ex.chunk, <<"\\", "n">>, <<"\n">>),
        Lower(Strip(Replace(ex.chunk, <<"\\", "n">>, <<"\n">>))))

\* one iteration of the chunk loop (app.py:295-355).  outcome is "continue",
\* "sentinel" (the branch of 335-345) or "raised", with the exception raised.
process_chunk(l, chunk) ==
    process_chunk_extracted(l, IF ExtractionAttempted(l)
                               THEN extract_conversation_id_from_chunk(chunk)
                               ELSE [conv_id |-> None, chunk |-> chunk])

\* except_handler with the slip of not replacing full_text: the final pass
\* rebuilds the content from the answer text received before the exception
except_handler_keeps_full_text(l, id) ==
    stream_token([l EXCEPT !.buffer = <<>>], UserErrorMessage(id))

\* the except block (app.py:357-370)
except_handler(l, id) ==
    stream_token([l EXCEPT !.full_text = UserErrorMessage(id), !.buffer = <<>>],
                 UserErrorMessage(id))

\* the call of replace_source_reference_links at app.py:391, as the claims
\* observe it
finalize_log(l, stripped, final_text) ==
    [l EXCEPT !.references = @ \cup final_text.references,
              !.resolver_log = Append(@, [site |-> "final", text |-> stripped,
                                          out |-> final_text.text,
                                          raised |-> final_text.raised,
                                          calls |-> final_text.calls])]

\* app.py:391-394 once the references of the stripped text are rewritten
finalize_rewritten(l, stripped, final_text) ==
    IF final_text.raised # "none"
    THEN [locals |-> finalize_log(l, stripped, final_text), outcome |-> "raised",
          exception |-> final_text.raised]
    ELSE [locals |-> [finalize_log(l, stripped, final_text) EXCEPT !.content = final_text.text],
          outcome |-> "returned", exception |-> "none"]

\* full_text.replace(TERMINATE_TOKEN, "") is rewritten (app.py:391-392)
finalize_stripped(l, stripped) ==
    finalize_rewritten(l, stripped, replace_source_reference_links(stripped))

\* app.py:391-394: the final pass over the full text; an exception of the
\* resolver leaves handle_message before response_msg.content is set
finalize(l) == finalize_stripped(l, Replace(l.full_text, TERMINATE_TOKEN, <<>>))

\* the locals written back to the state
SetLocals(l) ==
    /\ conversation_id' = l.conversation_id
    /\ buffer' = l.buffer
    /\ full_text' = l.full_text
    /\ references' = l.references
    /\ chunk_count' = l.chunk_count
    /\ first_content_seen' = l.first_content_seen
    /\ streamed' = l.streamed
    /\ content' = l.content
    /\ resolver_log' = l.resolver_log

(***************************************************************************)
(* src/orchestrator_client.py: call_orchestrator_stream                    *)
(***************************************************************************)
\* an event of response.aiter_text() that is no text: the transport fails
\* (httpx.ReadError) and the exception leaves the generator
ReadError == <<"<ReadError>">>

\* response.aiter_text() filtered by "if chunk": the events still to come
Yielded(chunks) == SelectSeq(chunks, LAMBDA c : c # <<>>)

\* the user of the session: cl.user_session "user" and its metadata
AppUser ==
    [authorized |-> user_authorized,
     client_principal_id |-> <<"u", "1">>,
     client_principal_name |-> <<"u", "s", "e", "r">>,
     client_group_names |-> {<<"g", "1">>},
     access_token |-> <<"t", "o", "k">>]

\* check_authorization() (app.py:172-190): the identity of the caller
check_authorization ==
    [authorized |-> AppUser.authorized,
     client_principal_id |-> AppUser.client_principal_id,
     client_principal_name |-> AppUser.client_principal_name,
     client_group_names |-> AppUser.client_group_names,
     access_token |-> AppUser.access_token]

\* the payload of the request (orchestrator_client.py:78-85): question_id is
\* a key of it only when a question id is given
Payload(conv_id, question, question_id) ==
    IF Truthy(question_id)
    THEN [conversation_id |-> conv_id, question |-> question, ask |-> question,
          question_id |-> question_id]
    ELSE [conversation_id |-> conv_id, question |-> question, ask |-> question]

\* the headers of the request (orchestrator_client.py:62-76): the access token
\* of the caller is a bearer token of the Authorization header
Headers(access_token) ==
    IF Truthy(access_token)
    THEN [Content_Type |-> "application/json",
          Authorization |-> <<"B", "e", "a", "r", "e", "r", " ">> \o access_token]
    ELSE [Content_Type |-> "application/json"]

\* client.stream("POST", ...) (orchestrator_client.py:89-90): the request is
\* sent when the generator is resumed for the first time
client_stream(g, sent) == IF g = "created" THEN sent + 1 ELSE sent

\* generator.aclose(): how closing ends.  A generator that has run to its end
\* or has raised is closed already; one suspended at its yield has its
\* response still open: GeneratorExit is thrown into it and either leaves it
\* or is ignored by it, and then aclose raises RuntimeError("async generator
\* ignored GeneratorExit")
aclose(g) ==
    IF g = "suspended" THEN {"closed while open", "ignored GeneratorExit"}
    ELSE {"closed"}

\* no request made, no response received
NoResponse == [status |-> 0, body |-> <<>>]

(***************************************************************************)
(* Inputs.                                                                 *)
(***************************************************************************)
\* no call of the container selection
NoSelection == [called |-> FALSE]

\* no concurrent turns
NoTurns == <<>>

\* longest response body, in chunks
MaxChunks == 3

ConvId == <<"a", "b", "c", "d", "1", "2", "3", "4", "-", "a", "b", "c", "d", "-", "1", "2", "3", "4", "-", "a", "b", "c", "d", "-", "1", "2", "3", "4", "5", "6", "7", "8", "9", "0", "a", "b">>

RelativeLink == <<"[", "d", "]", "(", "x", ".", "p", "d", "f", ")">>

AbsoluteLink == <<"[", "e", "]", "(", "h", "t", "t", "p", ":", "/", "/", "h", "/", "y", ".", "m", "d", ")">>

\* a link to a download route of the application
DownloadLink == <<"[", "f", "]", "(", "/", "a", "p", "i", "/", "d", "o", "w", "n", "l", "o", "a", "d", "/", "z", ".", "p", "d", "f", ")">>

\* a link to a missing blob between the two halves of the sentinel
SentinelAroundLink == <<"T", "E", "R", "M", "I">> \o RelativeLink \o <<"N", "A", "T", "E">>

\* a link whose target holds the sentinel
SentinelInLink == <<"[", "e", "]", "(", "h", "t", "t", "p", ":", "/", "/", "h", "/", "T", "E", "R", "M", "I", "N", "A", "T", "E", "y", ".", "m", "d", ")">>

\* a link whose target urlsplit cannot parse
UnparsableLink == <<"[", "d", "]", "(", "/", "/", "[", "x", ".", "p", "d", "f", ")">>

\* the chunks a response body is made of: plain text, the sentinel whole,
\* split and nested in itself, a conversation-id prefix, reference links whole
\* and split, the sentinel around and inside a link, an escaped newline, an
\* HTML page, an empty chunk and a transport failure
Fragments ==
    { <<"a">>,
      <<"a", "T", "E", "R", "M", "I", "N", "A", "T", "E", "z">>,
      <<"T", "E", "R", "M", "I">>,
      <<"N", "A", "T", "E">>,
      <<"T", "E", "R", "M", "I", "T", "E", "R", "M", "I", "N", "A", "T", "E", "N", "A", "T", "E">>,
      ConvId \o <<" ">>,
      RelativeLink,
      <<"[", "d", "]", "(", "x">>,
      <<".", "p", "d", "f", ")">>,
      AbsoluteLink,
      DownloadLink,
      SentinelAroundLink,
      SentinelInLink,
      UnparsableLink,
      <<"[", "d", "]", "(", "/", "/", "[", "x">>,
      <<"\\", "n">>,
      <<"<", "h", "t", "m", "l", ">">>,
      <<>>,
      ReadError }

Bodies == UNION {[1..n -> Fragments] : n \in 0..MaxChunks}

Responses ==
    {[status |-> 200, body |-> b] : b \in Bodies}
        \cup {[status |-> 500, body |-> << <<"a">> >>]}

\* the blob the relative link points to
LinkedBlob == <<DOCUMENTS_CONTAINER, <<"x", ".", "p", "d", "f">> >>

\* the conversation id a resumed chat has stored in the session (app.py:214)
ResumedThread == <<"t", "1">>

\* feedback.py:86-87: no form opened, no feedback callback running
NoFeedbackCalls ==
    /\ feedback_msg = NoMessage
    /\ last_feedback_context = NoContext
    /\ feedback_tasks = [s \in {"s1", "s2"} |-> NoTask]
    /\ messages = <<>>
    /\ feedback_log = <<>>

\* feedback.py:10 and 86-87: the rating flow configured, no callback called
NoFeedback ==
    /\ FEEDBACK_RATING = TRUE
    /\ NoFeedbackCalls

\* datalayer.py:49-51: no credential, no client, the lock free, no call
NoClientCalls ==
    /\ credential = NoCredential
    /\ cosmos_client = NoClient
    /\ init_lock = "free"
    /\ client_calls = <<>>
    /\ created = [credentials |-> 0, clients |-> 0]

\* an empty conversations container and no call of OrchestratorDataLayer
NoConversations ==
    /\ conversations = <<>>
    /\ data_layer_call = NoCall

\* empty containers and no call of CosmosDBDataLayer
NoThreads ==
    /\ threads_container = {}
    /\ thread_list_container = {}
    /\ thread_tasks = <<>>
    /\ feedback_call = NoCall

\* the components other than the chat turn, before their first call
ComponentsIdle == NoFeedback /\ NoClientCalls /\ NoConversations /\ NoThreads

\* no turn in progress: the variables of handle_message before a message
NoTurnInProgress ==
    /\ message_id = <<"m", "1">>
    /\ message_content = <<"q">>
    /\ payload = None
    /\ headers = None
    /\ response = NoResponse
    /\ pc = "idle"
    /\ generator = "none"
    /\ upstream = <<>>
    /\ conversation_id = <<>>
    /\ buffer = <<>>
    /\ full_text = <<>>
    /\ references = {}
    /\ chunk_count = 0
    /\ first_content_seen = FALSE
    /\ loop_exit = "none"
    /\ exception = "none"
    /\ streamed = <<>>
    /\ content = <<>>
    /\ resolver_log = <<>>
    /\ requests = 0
    /\ close_outcome = "open"

\* no session is chatting: the state in which the other components are
\* called on their own
ChatIdle ==
    /\ user_authorized = TRUE
    /\ session_conversation_id = None
    /\ blobs = {}
    /\ sas_available = TRUE
    /\ NoTurnInProgress
    /\ selection = NoSelection
    /\ turns = NoTurns

Init ==
    /\ user_authorized \in BOOLEAN
    /\ session_conversation_id \in {None, ResumedThread}
    /\ \E storage \in {<<{}, TRUE>>, <<{LinkedBlob}, TRUE>>, <<{LinkedBlob}, FALSE>>} :
          /\ blobs = storage[1]
          /\ sas_available = storage[2]
    /\ NoTurnInProgress
    /\ ComponentsIdle
    /\ selection = NoSelection
    /\ turns = NoTurns

(***************************************************************************)
(* Actions: handle_message between two awaits.                             *)
(***************************************************************************)
\* app.py:229-250: an unauthorized user gets the fixed message and nothing else
RejectUnauthorized ==
    /\ pc = "idle"
    /\ ~user_authorized
    /\ SetLocals(stream_token(
          [Locals EXCEPT !.conversation_id =
              IF Truthy(session_conversation_id) THEN session_conversation_id ELSE <<>>],
          NoAccessMessage))
    /\ pc' = "done"
    /\ UNCHANGED <<component_vars, selection, turns, message_content, headers, requests, close_outcome, user_authorized,
                   session_conversation_id, message_id, payload, response,
                   blobs, sas_available, generator, upstream, loop_exit, exception>>

\* Start with the slip of not returning after the no-access message: the
\* turn of an unauthorized user goes on to the orchestrator
Start_without_authorization_check(responses) ==
    /\ pc = "idle"
    /\ SetLocals(stream_token(
          [Locals EXCEPT !.conversation_id =
              IF Truthy(session_conversation_id) THEN session_conversation_id ELSE <<>>],
          <<" ">>))
    /\ payload' = Payload(IF Truthy(session_conversation_id) THEN session_conversation_id
                          ELSE <<>>,
                          message_content, message_id)
    /\ headers' = Headers(check_authorization.access_token)
    /\ \E r \in responses :
          /\ response' = r
          /\ upstream' = r.body
    /\ generator' = "created"
    /\ pc' = "loop"
    /\ UNCHANGED <<component_vars, selection, turns, message_content, requests, close_outcome, user_authorized,
                   session_conversation_id, message_id, blobs,
                   sas_available, loop_exit, exception>>

\* app.py:229-288: the placeholder token is streamed and the generator created;
\* the orchestrator's answer to the request is chosen here
Start(responses) ==
    /\ pc = "idle"
    /\ user_authorized
    /\ SetLocals(stream_token(
          [Locals EXCEPT !.conversation_id =
              IF Truthy(session_conversation_id) THEN session_conversation_id ELSE <<>>],
          <<" ">>))
    /\ payload' = Payload(IF Truthy(session_conversation_id) THEN session_conversation_id
                          ELSE <<>>,
                          message_content, message_id)
    /\ headers' = Headers(check_authorization.access_token)
    /\ \E r \in responses :
          /\ response' = r
          /\ upstream' = r.body
    /\ generator' = "created"
    /\ pc' = "loop"
    /\ UNCHANGED <<component_vars, selection, turns, message_content, requests, close_outcome, user_authorized,
                   session_conversation_id, message_id, blobs,
                   sas_available, loop_exit, exception>>

\* RequestFails with the slip of a retry: after a status >= 400 the
\* generator is created again and the request sent once more
RequestFails_with_retry ==
    /\ pc = "loop"
    /\ generator = "created"
    /\ response.status >= 400
    /\ requests' = client_stream(generator, requests)
    /\ response' = [status |-> 200, body |-> << <<"a">> >>]
    /\ upstream' = << <<"a">> >>
    /\ UNCHANGED <<component_vars, selection, turns, message_content, headers, close_outcome,
                   user_authorized, session_conversation_id, message_id, payload, blobs,
                   sas_available, pc, generator, conversation_id, buffer, full_text,
                   references, chunk_count, first_content_seen, loop_exit, exception,
                   streamed, content, resolver_log>>

\* orchestrator_client.py:91-96: a status >= 400 raises before any chunk;
\* app.py:357-370 catches it
RequestFails ==
    /\ pc = "loop"
    /\ generator = "created"
    /\ response.status >= 400
    /\ SetLocals(except_handler(Locals, message_id))
    /\ requests' = client_stream(generator, requests)
    /\ generator' = "finished"
    /\ loop_exit' = "exception"
    /\ exception' = "Exception"
    /\ pc' = "finally"
    /\ UNCHANGED <<component_vars, selection, turns, message_content, headers, close_outcome, user_authorized,
                   session_conversation_id, message_id, payload, response,
                   blobs, sas_available, upstream>>

\* app.py:291-355: the next non-empty chunk is read and processed
ReceiveChunk ==
    /\ pc = "loop"
    /\ response.status < 400
    /\ Yielded(upstream) # <<>>
    /\ Head(Yielded(upstream)) # ReadError
    /\ LET Processed(r) ==
               /\ SetLocals(IF r.outcome = "raised"
                            THEN except_handler(r.locals, message_id)
                            ELSE r.locals)
               /\ pc' = CASE r.outcome = "continue" -> "loop"
                          [] r.outcome = "sentinel" -> "drain"
                          [] r.outcome = "raised" -> "finally"
               /\ loop_exit' = CASE r.outcome = "continue" -> loop_exit
                                 [] r.outcome = "sentinel" -> "sentinel"
                                 [] r.outcome = "raised" -> "exception"
               /\ exception' = r.exception
       IN Processed(process_chunk(Locals, Head(Yielded(upstream))))
    /\ requests' = client_stream(generator, requests)
    /\ generator' = "suspended"
    /\ upstream' = Tail(Yielded(upstream))
    /\ UNCHANGED <<component_vars, selection, turns, message_content, headers, close_outcome, user_authorized,
                   session_conversation_id, message_id, payload, response,
                   blobs, sas_available>>

\* app.py:291, 357-370: reading the next chunk fails; the exception leaves the
\* generator and is caught
StreamFails ==
    /\ pc = "loop"
    /\ response.status < 400
    /\ Yielded(upstream) # <<>>
    /\ Head(Yielded(upstream)) = ReadError
    /\ SetLocals(except_handler(Locals, message_id))
    /\ requests' = client_stream(generator, requests)
    /\ generator' = "finished"
    /\ upstream' = <<>>
    /\ loop_exit' = "exception"
    /\ exception' = "ReadError"
    /\ pc' = "finally"
    /\ UNCHANGED <<component_vars, selection, turns, message_content, headers, close_outcome, user_authorized,
                   session_conversation_id, message_id, payload, response,
                   blobs, sas_available>>

\* app.py:291: the body is exhausted and the loop ends
StreamEnds ==
    /\ pc = "loop"
    /\ response.status < 400
    /\ Yielded(upstream) = <<>>
    /\ requests' = client_stream(generator, requests)
    /\ generator' = "finished"
    /\ upstream' = <<>>
    /\ loop_exit' = "exhausted"
    /\ pc' = "finally"
    /\ UNCHANGED <<component_vars, selection, turns, message_content, headers, close_outcome, user_authorized,
                   session_conversation_id, message_id, payload, response,
                   blobs, sas_available, conversation_id, buffer, full_text, references,
                   chunk_count, first_content_seen, exception, streamed, content,
                   resolver_log>>

\* app.py:343-344: after the sentinel one more chunk is read and discarded
DrainChunk ==
    /\ pc = "drain"
    /\ Yielded(upstream) # <<>>
    /\ Head(Yielded(upstream)) # ReadError
    /\ upstream' = Tail(Yielded(upstream))
    /\ UNCHANGED <<component_vars, selection, turns, message_content, headers, requests, close_outcome, user_authorized,
                   session_conversation_id, message_id, payload, response,
                   blobs, sas_available, pc, generator, conversation_id, buffer, full_text,
                   references, chunk_count, first_content_seen, loop_exit, exception,
                   streamed, content, resolver_log>>

\* app.py:343-344, 357-370: reading fails while draining; the exception is
\* raised inside the try and caught
DrainFails ==
    /\ pc = "drain"
    /\ Yielded(upstream) # <<>>
    /\ Head(Yielded(upstream)) = ReadError
    /\ SetLocals(except_handler(Locals, message_id))
    /\ generator' = "finished"
    /\ upstream' = <<>>
    /\ loop_exit' = "exception"
    /\ exception' = "ReadError"
    /\ pc' = "finally"
    /\ UNCHANGED <<component_vars, selection, turns, message_content, headers, requests, close_outcome, user_authorized,
                   session_conversation_id, message_id, payload, response,
                   blobs, sas_available>>

\* DrainEnds with the slip of breaking without draining: the loop is left
\* while chunks are still to come
DrainEnds_without_draining ==
    /\ pc = "drain"
    /\ generator' = "finished"
    /\ upstream' = upstream
    /\ pc' = "finally"
    /\ UNCHANGED <<component_vars, selection, turns, message_content, headers, requests, close_outcome, user_authorized,
                   session_conversation_id, message_id, payload, response,
                   blobs, sas_available, conversation_id, buffer, full_text, references,
                   chunk_count, first_content_seen, loop_exit, exception, streamed, content,
                   resolver_log>>

\* app.py:343-345: the drain reaches the end of the body; break
DrainEnds ==
    /\ pc = "drain"
    /\ Yielded(upstream) = <<>>
    /\ generator' = "finished"
    /\ upstream' = <<>>
    /\ pc' = "finally"
    /\ UNCHANGED <<component_vars, selection, turns, message_content, headers, requests, close_outcome, user_authorized,
                   session_conversation_id, message_id, payload, response,
                   blobs, sas_available, conversation_id, buffer, full_text, references,
                   chunk_count, first_content_seen, loop_exit, exception, streamed, content,
                   resolver_log>>

\* CloseGenerator with the slip of not absorbing the RuntimeError of a
\* generator that ignored GeneratorExit: it leaves handle_message
CloseGenerator_without_absorbing ==
    /\ pc = "finally"
    /\ \E outcome \in aclose(generator) :
          /\ close_outcome' = outcome
          /\ pc' = IF outcome = "ignored GeneratorExit" THEN "failed" ELSE "finalize"
          /\ exception' = IF outcome = "ignored GeneratorExit"
                          THEN "RuntimeError: async generator ignored GeneratorExit"
                          ELSE exception
    /\ generator' = "closed"
    /\ UNCHANGED <<component_vars, selection, turns, message_content, headers, requests, user_authorized,
                   session_conversation_id, message_id, payload, response, blobs,
                   sas_available, upstream, conversation_id, buffer, full_text, references,
                   chunk_count, first_content_seen, loop_exit, streamed, content,
                   resolver_log>>

\* CloseGenerator with the slip of leaving out the finally block
CloseGenerator_leaves_open ==
    /\ pc = "finally"
    /\ pc' = "finalize"
    /\ UNCHANGED <<component_vars, selection, turns, message_content, headers, requests, close_outcome, user_authorized,
                   session_conversation_id, message_id, payload, response,
                   blobs, sas_available, generator, upstream, conversation_id, buffer,
                   full_text, references, chunk_count, first_content_seen, loop_exit,
                   exception, streamed, content, resolver_log>>

\* app.py:372-377: generator.aclose()
CloseGenerator ==
    /\ pc = "finally"
    /\ \E outcome \in aclose(generator) : close_outcome' = outcome
    /\ generator' = "closed"
    /\ pc' = "finalize"
    /\ UNCHANGED <<component_vars, selection, turns, message_content, headers, requests, user_authorized,
                   session_conversation_id, message_id, payload, response,
                   blobs, sas_available, upstream, conversation_id, buffer, full_text,
                   references, chunk_count, first_content_seen, loop_exit, exception,
                   streamed, content, resolver_log>>

\* Finalize with the slip of storing no conversation id after a failure
Finalize_forgetting_on_error ==
    /\ pc = "finalize"
    /\ session_conversation_id' = IF exception = "none" THEN conversation_id ELSE <<>>
    /\ LET Final(r) ==
               /\ SetLocals(r.locals)
               /\ pc' = IF r.outcome = "raised" THEN "failed" ELSE "done"
               /\ exception' = IF r.outcome = "raised" THEN r.exception ELSE exception
       IN Final(finalize(Locals))
    /\ UNCHANGED <<component_vars, selection, turns, message_content, headers, requests, close_outcome,
                   user_authorized, message_id, payload, response, blobs, sas_available,
                   generator, upstream, loop_exit>>

\* app.py:379-395: the conversation id is stored, the final content set and
\* the message updated; an exception of the final pass leaves handle_message
\* with the message as streamed ("failed")
Finalize ==
    /\ pc = "finalize"
    /\ session_conversation_id' = conversation_id
    /\ LET Final(r) ==
               /\ SetLocals(r.locals)
               /\ pc' = IF r.outcome = "raised" THEN "failed" ELSE "done"
               /\ exception' = IF r.outcome = "raised" THEN r.exception ELSE exception
       IN Final(finalize(Locals))
    /\ UNCHANGED <<component_vars, selection, turns, message_content, headers, requests, close_outcome, user_authorized,
                   message_id, payload, response, blobs, sas_available,
                   generator, upstream, loop_exit>>

Next ==
    \/ RejectUnauthorized
    \/ Start(Responses)
    \/ RequestFails
    \/ ReceiveChunk
    \/ StreamFails
    \/ StreamEnds
    \/ DrainChunk
    \/ DrainFails
    \/ DrainEnds
    \/ CloseGenerator
    \/ Finalize

Spec == Init /\ [][Next]_vars

TypeOK ==
    /\ pc \in {"idle", "loop", "drain", "finally", "finalize", "done", "failed"}
    /\ generator \in {"none", "created", "suspended", "finished", "closed"}
    /\ loop_exit \in {"none", "exhausted", "sentinel", "exception"}
    /\ exception \in {"none", "Exception", "RuntimeError", "ValueError", "ReadError"}
    /\ chunk_count \in 0..Len(response.body)
    /\ requests \in 0..1
    /\ close_outcome \in {"open", "closed", "closed while open", "ignored GeneratorExit"}
    /\ selection = NoSelection
    /\ turns = NoTurns

(***************************************************************************)
(* handle_message as a function of the response body, for an authorized    *)
(* user and a status below 400: the same loop body, except block and final *)
(* pass, applied to a whole chunk sequence.                                *)
(***************************************************************************)
\* the chunk loop (app.py:291-355) over the events the generator yields
RECURSIVE run_loop(_, _)
run_loop(l, chunks) ==
    IF chunks = <<>> THEN [locals |-> l, outcome |-> "exhausted", exception |-> "none"]
    ELSE IF Head(chunks) = ReadError
    THEN [locals |-> l, outcome |-> "raised", exception |-> "ReadError"]
    ELSE LET r == process_chunk(l, Head(chunks))
         IN IF r.outcome = "continue" THEN run_loop(r.locals, Tail(chunks))
            ELSE IF r.outcome = "sentinel" /\ ReadError \in {Tail(chunks)[i] : i \in 1..Len(Tail(chunks))}
            THEN [r EXCEPT !.outcome = "raised", !.exception = "ReadError"]
            ELSE r

\* the locals of handle_message when the generator has been created
\* (app.py:231-288): the placeholder token is streamed, nothing is received
NewLocals(conv_id) ==
    stream_token(
        [conversation_id |-> conv_id, buffer |-> <<>>, full_text |-> <<>>,
         references |-> {}, chunk_count |-> 0, first_content_seen |-> FALSE,
         streamed |-> <<>>, content |-> <<>>, resolver_log |-> <<>>],
        <<" ">>)

\* the final pass after the loop, the except block having run if the loop raised
run_turn_looped(id, r) ==
    finalize(IF r.outcome = "raised" THEN except_handler(r.locals, id) ELSE r.locals)

\* a whole turn of an authorized user whose session holds conv_id, whose
\* message has the given id and whose response body (status below 400) is body
run_turn(conv_id, id, body) == run_turn_looped(id, run_loop(NewLocals(conv_id), Yielded(body)))

\* the locals at the end of a turn that started with the conversation id of
\* the payload and whose response body is body
handle_message_result(body) == run_turn(payload.conversation_id, message_id, body).locals

(***************************************************************************)
(* Vocabulary of the properties.                                           *)
(***************************************************************************)
\* the chunks the generator yields for this response
YieldedBody == Yielded(response.body)

\* the turn streams an answer: authorized user, status below 400
Answering == user_authorized /\ response.status < 400

\* the increments streamed from chunks: everything after the placeholder " "
Increments == IF streamed = <<>> THEN <<>> ELSE Tail(streamed)

\* the sentinel split over two consecutive chunks
SplitSentinel(chunks) ==
    \E i \in 1..(Len(chunks) - 1) : \E k \in 1..(Len(TERMINATE_TOKEN) - 1) :
        /\ EndsWith(chunks[i], SubSeq(TERMINATE_TOKEN, 1, k))
        /\ StartsWith(chunks[i + 1], SubSeq(TERMINATE_TOKEN, k + 1, Len(TERMINATE_TOKEN)))

\* the first sentinel of the stream arrives whole, inside one chunk
SentinelInOneChunk(chunks) ==
    \E i \in 1..Len(chunks) :
        /\ Contains(chunks[i], TERMINATE_TOKEN)
        /\ ~Contains(Join(SubSeq(chunks, 1, i - 1))
                        \o Slice(chunks[i], 0, Find(chunks[i], TERMINATE_TOKEN)
                                                  + Len(TERMINATE_TOKEN) - 1),
                     TERMINATE_TOKEN)

\* a target that resolve_reference_href passes through unchanged
IsPassThrough(raw_href) ==
    LET href == Strip(raw_href)
        split_href == urlsplit(href)
    IN \/ split_href.scheme # <<>>
       \/ split_href.netloc # <<>>
       \/ StartsWith(href, <<"/", "a", "p", "i", "/", "d", "o", "w", "n", "l", "o", "a", "d", "/">>)
       \/ StartsWith(href, <<"a", "p", "i", "/", "d", "o", "w", "n", "l", "o", "a", "d", "/">>)

\* the <<container, blob name>> a relative target points to
TargetBlob(raw_href) ==
    LET path == LStripChars(unquote(Replace(urlsplit(Strip(raw_href)).path, <<"\\">>, <<"/">>)), {"/"})
        container == SelectContainer(PathExtension(path), DOCUMENTS_CONTAINER, IMAGES_CONTAINER)
    IN <<container, BlobName(path, container)>>

\* a relative target whose blob exists / does not exist in the storage account
PointsToExistingBlob(raw_href) == ~IsPassThrough(raw_href) /\ TargetBlob(raw_href) \in blobs

PointsToMissingBlob(raw_href) ==
    /\ ~IsPassThrough(raw_href)
    /\ TargetBlob(raw_href)[2] # <<>>
    /\ TargetBlob(raw_href) \notin blobs

\* the matches of the reference pattern in a text
Matches(text) == REFERENCE_REGEX_finditer(text, 1)

\* text without the characters of the matches whose target is a missing blob
WithoutMissing(text) ==
    LET ms == Matches(text)
        missing == {k \in 1..Len(ms) : PointsToMissingBlob(ms[k].raw_href)}
        kept == {i \in 1..Len(text) :
                    ~\E k \in missing : ms[k].first <= i /\ i <= ms[k].last}
    IN IF missing = {} THEN text
       ELSE [j \in 1..Cardinality(kept) |->
                text[CHOOSE i \in kept : Cardinality({x \in kept : x <= i}) = j]]

\* the markup the resolver is specified to emit for a match with target url
Markup(display_text, url) == <<"[">> \o display_text \o <<"]", "(">> \o url \o <<")">>

\* the turn, run from the start, agrees with the function of the body
FunctionAgrees ==
    (pc = "done" /\ Answering) =>
        LET r == handle_message_result(response.body)
        IN /\ content = r.content
           /\ streamed = r.streamed
           /\ conversation_id = r.conversation_id
           /\ references = r.references
           /\ full_text = r.full_text

(***************************************************************************)
(* Properties.                                                             *)
(***************************************************************************)
\* C1: when the sentinel arrives split over two consecutive chunks, the turn
\* still detects it (the loop is left through the sentinel branch) and the
\* increments streamed stop before the sentinel: no character of it is sent.
C1_SplitSentinelDetected ==
    (pc = "done" /\ Answering /\ loop_exit # "exception" /\ SplitSentinel(YieldedBody)) =>
        /\ loop_exit = "sentinel"
        /\ Len(Join(Increments)) <= Find(full_text, TERMINATE_TOKEN)

\* C2: when the full sentinel occurs in the stream (here: arrives whole in
\* one chunk; the split sentinel is C1), no increment and not the final
\* content contains the sentinel, nor any character that occurs in the stream
\* only after the first sentinel.
C2_NothingAfterSentinel ==
    LET text == Join(YieldedBody)
        idx == Find(text, TERMINATE_TOKEN)
        after == Chars(Slice(text, idx + Len(TERMINATE_TOKEN), Len(text)))
                    \ (Chars(Slice(text, 0, idx)) \cup Chars(TERMINATE_TOKEN))
        clean(t) == ~Contains(t, TERMINATE_TOKEN) /\ Chars(t) \cap after = {}
    IN (Answering /\ loop_exit # "exception" /\ SentinelInOneChunk(YieldedBody)) =>
          /\ \A i \in 1..Len(Increments) : clean(Increments[i])
          /\ pc = "done" => clean(content)

\* C3: between two chunks (no sentinel found so far) the pending buffer holds
\* the last L-1 = 8 characters received, or all of them when fewer were
\* received, and exactly the characters before them have been streamed.
C3_LastBytesWithheld ==
    (pc = "loop" /\ chunk_count > 0) =>
        /\ Len(buffer) = Min(Len(full_text), Len(TERMINATE_TOKEN) - 1)
        /\ Join(Increments) = Slice(full_text, 0, Len(full_text) - Len(buffer))

\* C4: when the concatenation of the chunks contains no sentinel, the final
\* content is the reference-rewritten concatenation, after the conversation
\* id is taken off the first chunk and escaped newlines are normalized.
C4_RoundTrip ==
    (pc = "done" /\ Answering /\ loop_exit # "exception"
        /\ YieldedBody # <<>> /\ ~Contains(Join(YieldedBody), TERMINATE_TOKEN)) =>
        content = replace_source_reference_links(
                      Replace(extract_conversation_id_from_chunk(Head(YieldedBody)).chunk
                                  \o Join(Tail(YieldedBody)),
                              <<"\\", "n">>, <<"\n">>)).text

\* C5: chunk boundaries carry no meaning: a turn ends with the conversation
\* id, the final content and the streamed text of the turn that receives the
\* same text as one chunk (the conversation-id prefix, if any, lying wholly
\* in the first chunk; turns that end in the except block set aside).
C5_BoundariesIrrelevant ==
    LET one == handle_message_result(<<Join(YieldedBody)>>)
    IN (pc = "done" /\ Answering /\ loop_exit # "exception" /\ YieldedBody # <<>>
           /\ one.full_text # UserErrorMessage(message_id)
           /\ UUID_REGEX_match(Join(YieldedBody)) = UUID_REGEX_match(Head(YieldedBody))) =>
          /\ conversation_id = one.conversation_id
          /\ content = one.content
          /\ Join(streamed) = Join(one.streamed)

\* C6: after the first chunk of a turn the conversation id never changes, and
\* a later chunk is appended to the full text with nothing stripped from it.
C6_FirstChunkOnly ==
    [][(pc = "loop" /\ chunk_count >= 1 /\ chunk_count' = chunk_count + 1
            /\ loop_exit' # "exception") =>
          /\ conversation_id' = conversation_id
          /\ full_text' = full_text \o replace_source_reference_links(
                                          Replace(Head(Yielded(upstream)),
                                                  <<"\\", "n">>, <<"\n">>)).text]_vars

C8_NoRawMarkupStreamed ==
    (Answering /\ loop_exit # "exception") =>
        \A k \in 1..Len(Matches(Join(Increments))) :
            IsPassThrough(Matches(Join(Increments))[k].raw_href)

\* C9: a link to a relative path whose blob exists is rewritten to
\* [display-text](signed-url); the signed URL is in the reference set and the
\* rewritten link in the final content.
C9_ExistingReferenceSigned ==
    (Answering /\ loop_exit \in {"exhausted", "sentinel"} /\ sas_available) =>
        \A n \in 1..Len(resolver_log) :
            \A k \in 1..Len(Matches(resolver_log[n].text)) :
                LET m == Matches(resolver_log[n].text)[k]
                    signed == BlobUrl(TargetBlob(m.raw_href)[1], TargetBlob(m.raw_href)[2])
                                  \o <<"?">> \o SasToken
                IN (resolver_log[n].site = "chunk" /\ PointsToExistingBlob(m.raw_href)) =>
                      /\ Contains(resolver_log[n].out, Markup(m.display_text, signed))
                      /\ signed \in references
                      /\ pc = "done" => Contains(content, Markup(m.display_text, signed))

\* C10: when the blob exists and signing is unavailable, the link is kept,
\* rewritten to the unsigned direct blob URL, and that URL is in the
\* reference set.
C10_UnsignedFallback ==
    (Answering /\ loop_exit \in {"exhausted", "sentinel"} /\ ~sas_available) =>
        \A n \in 1..Len(resolver_log) :
            \A k \in 1..Len(Matches(resolver_log[n].text)) :
                LET m == Matches(resolver_log[n].text)[k]
                    direct == BlobUrl(TargetBlob(m.raw_href)[1], TargetBlob(m.raw_href)[2])
                IN (resolver_log[n].site = "chunk" /\ PointsToExistingBlob(m.raw_href)) =>
                      /\ Contains(resolver_log[n].out, Markup(m.display_text, direct))
                      /\ direct \in references

\* C11: no failure of reference resolution aborts the turn: no call of
\* replace_source_reference_links raises, and a turn that meets neither an
\* orchestrator failure nor an HTML payload ends with the message updated and
\* the answer text, not the error message, as final content.
C11_ResolutionNeverAborts ==
    /\ \A n \in 1..Len(resolver_log) : resolver_log[n].raised = "none"
    /\ (Answering /\ exception \notin {"Exception", "RuntimeError", "ReadError"}) =>
          /\ pc # "failed"
          /\ pc = "done" => content # UserErrorMessage(message_id)

\* a chunk that looks like an HTML error page, in the words of C12
HtmlErrorPage(chunk) ==
    LET text == Lower(Strip(chunk))
    IN \/ StartsWith(text, <<"<", "!", "d", "o", "c", "t", "y", "p", "e">>)
       \/ StartsWith(text, <<"<", "h", "t", "m", "l">>)
       \/ Contains(SubSeq(text, 1, Min(Len(text), 120)), <<"<", "h", "t", "m", "l">>)
       \/ Contains(text, <<"a", "z", "u", "r", "e", " ", "c", "o", "n", "t", "a", "i", "n", "e", "r", " ", "a", "p", "p", "s">>)

\* C12: when the first chunk with content looks like an HTML error page, the
\* turn aborts at that chunk: the only token sent to the render collaborator
\* is the error message, no reference is resolved; afterwards nothing more is
\* streamed or read from the stream and the final content is the error message.
C12_HtmlAborts ==
    [][/\ (/\ pc = "loop"
           /\ ~first_content_seen
           /\ Yielded(upstream) # <<>>
           /\ HtmlErrorPage(Head(Yielded(upstream)))) =>
              /\ exception' = "RuntimeError"
              /\ loop_exit' = "exception"
              /\ streamed' = Append(streamed, UserErrorMessage(message_id))
              /\ references' = references
              /\ resolver_log' = resolver_log
       /\ exception = "RuntimeError" =>
              /\ streamed' = streamed
              /\ upstream' = upstream
              /\ references' = references
              /\ pc' # "failed"
              /\ pc' = "done" => content' = UserErrorMessage(message_id)]_vars

\* C12 witness: a finished turn aborted by an HTML payload, with a later
\* chunk of the body never read
C12_Witness ==
    /\ pc = "done"
    /\ exception = "RuntimeError"
    /\ content = UserErrorMessage(message_id)
    /\ Yielded(upstream) # <<>>

\* C13: when the orchestrator answers with a status of 400 or more, the
\* generator raises before any chunk: no chunk is processed, the only token
\* streamed after the placeholder is the error message, and the final
\* content is the fixed error message with the message id in it.
C13_StatusErrorIsFatal ==
    (user_authorized /\ response.status >= 400) =>
        /\ chunk_count = 0
        /\ resolver_log \in {<<>>, <<[site |-> "final", text |-> UserErrorMessage(message_id),
                                      out |-> UserErrorMessage(message_id), raised |-> "none",
                                      calls |-> <<>>]>>}
        /\ pc # "loop" => exception = "Exception" /\ loop_exit = "exception"
        /\ Increments \in {<<>>, <<UserErrorMessage(message_id)>>}
        /\ pc # "failed"
        /\ pc = "done" =>
              /\ content = UserErrorMessage(message_id)
              /\ Contains(content, <<" ", "r", "e", "f", "e", "r", "e", "n", "c", "e", " ">>
                                       \o message_id \o <<".">>)

\* C13 witness: a finished turn whose request was answered with a status >= 400
C13_Witness ==
    /\ pc = "done"
    /\ user_authorized
    /\ response.status >= 400
    /\ response.body # <<>>

\* C14: the turn of an unauthorized user renders the no-access message and
\* nothing else: no request is made to the orchestrator, no reference is
\* resolved and the conversation id stored in the session stays as it was.
C14_UnauthorizedShortCircuit ==
    [][~user_authorized =>
          /\ generator' = "none"
          /\ response' = NoResponse
          /\ resolver_log' = <<>>
          /\ references' = {}
          /\ session_conversation_id' = session_conversation_id
          /\ streamed' = <<NoAccessMessage>>
          /\ content' = NoAccessMessage
          /\ pc' = "done"]_vars

\* C14 witness: an unauthorized user's finished turn in a resumed chat
C14_Witness ==
    /\ pc = "done"
    /\ ~user_authorized
    /\ session_conversation_id = ResumedThread
    /\ streamed = <<NoAccessMessage>>

\* C15: when the chunk loop is left by an exception, whatever raised it, the
\* message is updated and its final content is exactly the fixed error
\* message with the message id: none of the answer text streamed before.
C15_ErrorSupersedes ==
    loop_exit = "exception" =>
        /\ pc # "failed"
        /\ pc = "done" => content = UserErrorMessage(message_id)

\* C15 witness: a finished turn that streamed answer text, found the sentinel
\* and failed while draining
C15_Witness ==
    /\ pc = "done"
    /\ exception = "ReadError"
    /\ Contains(full_text, message_id)
    /\ Len(streamed) >= 3
    /\ \E i \in 1..Len(YieldedBody) : Contains(YieldedBody[i], TERMINATE_TOKEN)

\* C16: in a turn that opened the orchestrator stream the generator is closed
\* before the final update, however the loop ended.
C16_ClosedBeforeUpdate ==
    (generator # "none" /\ pc \in {"finalize", "done", "failed"}) =>
        /\ generator = "closed"
        /\ loop_exit \in {"exhausted", "sentinel", "exception"}

\* C16 witness: a finished turn whose loop ended at the sentinel, generator closed
C16_Witness ==
    /\ pc = "done"
    /\ loop_exit = "sentinel"
    /\ generator = "closed"

\* C17 as claimed: once the sentinel is detected every remaining chunk is
\* read before the loop is left, no token is streamed and full_text, the
\* conversation id and the reference set stay as they are.
C17_DrainIsSilent ==
    [][pc = "drain" =>
          /\ streamed' = streamed
          /\ full_text' = full_text
          /\ conversation_id' = conversation_id
          /\ references' = references
          /\ pc' # "drain" => Yielded(upstream) = <<>>]_vars

\* C17 amended: once the sentinel is detected the remaining chunks are read
\* until the stream is exhausted or reading fails; while reading does not
\* fail no token is streamed and full_text, the conversation id and the
\* reference set stay as they are; when it fails the except block takes over.
C17_DrainIsSilentUnlessItFails ==
    [][pc = "drain" =>
          IF Yielded(upstream) # <<>> /\ Head(Yielded(upstream)) = ReadError
          THEN /\ pc' = "finally"
               /\ loop_exit' = "exception"
               /\ streamed' = Append(streamed, UserErrorMessage(message_id))
          ELSE /\ streamed' = streamed
               /\ full_text' = full_text
               /\ conversation_id' = conversation_id
               /\ references' = references
               /\ pc' # "drain" => Yielded(upstream) = <<>>]_vars

\* C17 witness: a finished turn that found the sentinel and drained a chunk
C17_Witness ==
    /\ pc = "done"
    /\ loop_exit = "sentinel"
    /\ Len(YieldedBody) > chunk_count

\* the chunks received so far, each as the decoder is specified to append it:
\* the conversation-id prefix taken off the first, escaped newlines normalized
NormalizedChunks ==
    [i \in 1..chunk_count |->
        Replace(IF i = 1 THEN extract_conversation_id_from_chunk(YieldedBody[i]).chunk
                ELSE YieldedBody[i],
                <<"\\", "n">>, <<"\n">>)]

\* C18: between two chunks full_text is the concatenation of the chunks
\* received so far, and the pending buffer is the suffix of full_text that
\* has not been streamed.
C18_FullTextIsConcatenation ==
    (Answering /\ pc = "loop") =>
        /\ full_text = Join(NormalizedChunks)
        /\ full_text = Join(Increments) \o buffer

\* C19: the final content of a finished turn holds no sentinel.
C19_NoSentinelInFinalContent ==
    pc = "done" => ~Contains(content, TERMINATE_TOKEN)

\* every match the resolver was called on in the calls that returned
ResolvedMatches ==
    UNION {{<<n, k>> : k \in 1..Len(Matches(resolver_log[n].text))} :
              n \in {m \in 1..Len(resolver_log) : resolver_log[m].raised = "none"}}

\* the entries of the reference set that stand for a target: the target
\* itself when it is passed through, a URL of its blob otherwise
EntriesFor(raw_href) ==
    {url \in references :
        IF IsPassThrough(raw_href) THEN url = Strip(raw_href)
        ELSE StartsWith(url, BlobUrl(TargetBlob(raw_href)[1], TargetBlob(raw_href)[2]))}

\* C20: a target that resolves to a URL and is resolved more than once in a
\* turn has exactly one entry in the reference set.
C20_ResolutionIdempotent ==
    \A a \in ResolvedMatches : \A b \in ResolvedMatches \ {a} :
        LET raw_href == Matches(resolver_log[a[1]].text)[a[2]].raw_href
        IN (/\ Matches(resolver_log[b[1]].text)[b[2]].raw_href = raw_href
            /\ IsPassThrough(raw_href) \/ PointsToExistingBlob(raw_href)) =>
              Cardinality(EntriesFor(raw_href)) = 1

\* a target with a URL scheme or a network authority, or one that begins
\* with a download route of the application, in the words of C21
DirectTarget(raw_href) ==
    \/ StartsWith(Strip(raw_href), <<"/", "/">>)
    \/ IsPassThrough(raw_href)

\* C21: a call of replace_source_reference_links on a text whose matched
\* targets all have a URL scheme or a network authority or begin with the
\* download route returns the text unchanged, makes no call on a blob client
\* (no existence check, no signing), and applied to its own output returns it
\* unchanged again.
C21_DirectTargetsUntouched ==
    \A n \in 1..Len(resolver_log) :
        (/\ Matches(resolver_log[n].text) # <<>>
         /\ \A k \in 1..Len(Matches(resolver_log[n].text)) :
               DirectTarget(Matches(resolver_log[n].text)[k].raw_href)) =>
            /\ resolver_log[n].raised = "none"
            /\ resolver_log[n].out = resolver_log[n].text
            /\ resolver_log[n].calls = <<>>
            /\ replace_source_reference_links(resolver_log[n].out).raised = "none"
            /\ replace_source_reference_links(resolver_log[n].out).text = resolver_log[n].out

(***************************************************************************)
(* The container selection of resolve_reference_href (app.py:112-118) as a *)
(* function of the target and of the two configured container names.      *)
(***************************************************************************)
\* relative targets: one per supported extension, one in upper case, one
\* with two dots and one that names its container
SelectionTargets ==
    {<<"x", ".">> \o e : e \in SUPPORTED_EXTENSIONS}
        \cup { <<"X", ".", "P", "N", "G">>,
               <<"a", ".", "p", "n", "g", ".", "p", "d", "f">>,
               <<"i", "m", "g", "s", "/", "p", ".", "j", "p", "g">> }

\* the values _normalize_container_name gives for a container that is
\* configured and for one that is not (app.py:30-41)
DocumentsContainers == {<<>>, DOCUMENTS_CONTAINER}

ImagesContainers == {<<>>, IMAGES_CONTAINER}

SelectInit ==
    /\ user_authorized = TRUE
    /\ session_conversation_id = None
    /\ blobs = {}
    /\ sas_available = TRUE
    /\ NoTurnInProgress
    /\ ComponentsIdle
    /\ \E raw_href \in SelectionTargets :
       \E documents_container \in DocumentsContainers :
       \E images_container \in ImagesContainers :
          selection = [called |-> FALSE, raw_href |-> raw_href,
                       documents_container |-> documents_container,
                       images_container |-> images_container]
    /\ turns = NoTurns

\* app.py:98-129: the target is stripped and split, its path unquoted, the
\* container selected by the extension and the blob name taken from the path
Select ==
    /\ ~selection.called
    /\ selection' =
          [selection EXCEPT !.called = TRUE] @@
          [container |->
              SelectContainer(
                  PathExtension(resolve_path(urlsplit(Strip(selection.raw_href)))),
                  selection.documents_container, selection.images_container)]
    /\ UNCHANGED <<component_vars, user_authorized, session_conversation_id, message_id, message_content,
                   payload, headers, response, blobs, sas_available, pc, generator,
                   upstream, conversation_id, buffer, full_text, references, chunk_count,
                   first_content_seen, loop_exit, exception, streamed, content,
                   resolver_log, requests, close_outcome, turns>>

SelectNext == Select

SelectSpec == SelectInit /\ [][SelectNext]_vars

\* the file extension of a target: what follows its last dot, in lower case
FileExtension(raw_href) ==
    Lower(SubSeq(raw_href,
                 (CHOOSE i \in 1..Len(raw_href) :
                     raw_href[i] = "." /\ \A j \in (i + 1)..Len(raw_href) : raw_href[j] # ".")
                 + 1,
                 Len(raw_href)))

\* the image extensions, in the words of C22
ImageExtension(extension) ==
    extension \in { <<"b", "m", "p">>, <<"j", "p", "e", "g">>, <<"j", "p", "g">>,
                    <<"p", "n", "g">>, <<"t", "i", "f", "f">> }

\* C22: for a relative target the container selected is the images container
\* when the extension is an image extension and an images container is
\* configured; the documents container for any other extension and for an
\* image extension without images container, a documents container being
\* configured; and the images container for any extension when no documents
\* container is configured.
C22_ContainerByExtension ==
    selection.called =>
        /\ (ImageExtension(FileExtension(selection.raw_href))
                /\ selection.images_container # <<>>) =>
              selection.container = selection.images_container
        /\ (~ImageExtension(FileExtension(selection.raw_href))
                /\ selection.documents_container # <<>>) =>
              selection.container = selection.documents_container
        /\ (ImageExtension(FileExtension(selection.raw_href))
                /\ selection.images_container = <<>>) =>
              selection.container = selection.documents_container
        /\ selection.documents_container = <<>> =>
              selection.container = selection.images_container

\* a document target was looked up with only the images container configured:
\* the images container was selected
C22_Witness ==
    /\ selection.called
    /\ selection.documents_container = <<>>
    /\ selection.images_container = IMAGES_CONTAINER
    /\ selection.raw_href = <<"x", ".", "p", "d", "f">>
    /\ selection.container = IMAGES_CONTAINER

(***************************************************************************)
(* Two handle_message turns of two user sessions running concurrently on   *)
(* one event loop: each turn is a coroutine with its own locals and its    *)
(* own cl.user_session; the steps of the two interleave at the awaits.     *)
(***************************************************************************)
Sessions == {"s1", "s2"}

\* longest response body of a concurrent turn, in chunks
MaxConcurrentChunks == 2

\* plain text, a conversation-id prefix, a reference link, the sentinel and a
\* transport failure
ConcurrentFragments ==
    { <<"a">>,
      ConvId \o <<" ">>,
      AbsoluteLink,
      <<"a", "T", "E", "R", "M", "I", "N", "A", "T", "E", "z">>,
      ReadError }

ConcurrentBodies == UNION {[1..n -> ConcurrentFragments] : n \in 0..MaxConcurrentChunks}

\* a session and its message before handle_message runs: what the session
\* stores, the id of the message and the body the orchestrator will answer
NewTurn(stored_id, id, body) ==
    [pc |-> "idle", session_conversation_id |-> stored_id, message_id |-> id,
     body |-> body, upstream |-> <<>>, sent_conversation_id |-> <<>>,
     locals |-> [conversation_id |-> <<>>, buffer |-> <<>>, full_text |-> <<>>,
                 references |-> {}, chunk_count |-> 0, first_content_seen |-> FALSE,
                 streamed |-> <<>>, content |-> <<>>, resolver_log |-> <<>>],
     overlapped |-> FALSE]

ConcurrentInit ==
    /\ user_authorized = TRUE
    /\ session_conversation_id = None
    /\ blobs = {}
    /\ sas_available = TRUE
    /\ NoTurnInProgress
    /\ ComponentsIdle
    /\ selection = NoSelection
    /\ \E b1 \in ConcurrentBodies : \E b2 \in ConcurrentBodies :
          turns = [s \in Sessions |->
                      IF s = "s1" THEN NewTurn(None, <<"m", "1">>, b1)
                      ELSE NewTurn(ResumedThread, <<"m", "2">>, b2)]

\* whether a turn other than that of session s is between its first and its
\* last step
OtherInProgress(s) ==
    \E o \in Sessions \ {s} : turns[o].pc \notin {"idle", "done", "failed"}

\* the turn t after a step that leaves it as next
Stepped(s, next) == [next EXCEPT !.overlapped = @ \/ OtherInProgress(s)]

\* app.py:229-288 for an authorized user
turn_start(t) ==
    [t EXCEPT !.pc = "loop",
              !.upstream = t.body,
              !.sent_conversation_id =
                  IF Truthy(t.session_conversation_id) THEN t.session_conversation_id
                  ELSE <<>>,
              !.locals = NewLocals(IF Truthy(t.session_conversation_id)
                                   THEN t.session_conversation_id ELSE <<>>)]

\* app.py:357-370: the except block, then the finally block is next
turn_except(t, l) ==
    [t EXCEPT !.pc = "finally", !.upstream = <<>>,
              !.locals = except_handler(l, t.message_id)]

\* app.py:295-355: the chunk read has been processed with result r
turn_processed(t, r) ==
    IF r.outcome = "raised" THEN turn_except(t, r.locals)
    ELSE [t EXCEPT !.pc = IF r.outcome = "sentinel" THEN "drain" ELSE "loop",
                   !.upstream = Tail(Yielded(t.upstream)),
                   !.locals = r.locals]

\* app.py:291-370: the next chunk is read and processed, or reading fails
turn_chunk(t, l) ==
    IF Head(Yielded(t.upstream)) = ReadError THEN turn_except(t, t.locals)
    ELSE turn_processed(t, process_chunk(l, Head(Yielded(t.upstream))))

\* app.py:343-344: a chunk is read and discarded, or reading fails
turn_drain(t) ==
    IF Head(Yielded(t.upstream)) = ReadError THEN turn_except(t, t.locals)
    ELSE [t EXCEPT !.upstream = Tail(Yielded(t.upstream))]

\* app.py:379-395: the conversation id is stored in the session of the turn
\* and the final pass made, with result r
turn_finalized(t, r) ==
    [t EXCEPT !.pc = IF r.outcome = "raised" THEN "failed" ELSE "done",
              !.session_conversation_id = t.locals.conversation_id,
              !.locals = r.locals]

TurnUnchanged ==
    UNCHANGED <<component_vars, user_authorized, session_conversation_id, message_id, message_content,
                payload, headers, response, blobs, sas_available, pc, generator,
                upstream, conversation_id, buffer, full_text, references, chunk_count,
                first_content_seen, loop_exit, exception, streamed, content,
                resolver_log, requests, close_outcome, selection>>

TurnStart(s) ==
    /\ turns[s].pc = "idle"
    /\ turns' = [turns EXCEPT ![s] = Stepped(s, turn_start(turns[s]))]
    /\ TurnUnchanged

\* TurnChunk with the slip of keeping the reference set in a module-level
\* variable: the chunk is processed with the references of every turn
TurnChunk_with_shared_references(s) ==
    /\ turns[s].pc = "loop"
    /\ Yielded(turns[s].upstream) # <<>>
    /\ turns' = [turns EXCEPT ![s] =
                    Stepped(s, turn_chunk(turns[s],
                        [turns[s].locals EXCEPT !.references =
                            UNION {turns[o].locals.references : o \in Sessions}]))]
    /\ TurnUnchanged

TurnChunk(s) ==
    /\ turns[s].pc = "loop"
    /\ Yielded(turns[s].upstream) # <<>>
    /\ turns' = [turns EXCEPT ![s] = Stepped(s, turn_chunk(turns[s], turns[s].locals))]
    /\ TurnUnchanged

TurnDrain(s) ==
    /\ turns[s].pc = "drain"
    /\ Yielded(turns[s].upstream) # <<>>
    /\ turns' = [turns EXCEPT ![s] = Stepped(s, turn_drain(turns[s]))]
    /\ TurnUnchanged

\* app.py:291, 343-345: the body is exhausted, in the loop or in the drain
TurnEnd(s) ==
    /\ turns[s].pc \in {"loop", "drain"}
    /\ Yielded(turns[s].upstream) = <<>>
    /\ turns' = [turns EXCEPT ![s] =
                    Stepped(s, [turns[s] EXCEPT !.pc = "finally", !.upstream = <<>>])]
    /\ TurnUnchanged

\* app.py:372-377: generator.aclose()
TurnClose(s) ==
    /\ turns[s].pc = "finally"
    /\ turns' = [turns EXCEPT ![s] = Stepped(s, [turns[s] EXCEPT !.pc = "finalize"])]
    /\ TurnUnchanged

TurnFinalize(s) ==
    /\ turns[s].pc = "finalize"
    /\ turns' = [turns EXCEPT ![s] =
                    Stepped(s, turn_finalized(turns[s], finalize(turns[s].locals)))]
    /\ TurnUnchanged

ConcurrentNext ==
    \E s \in Sessions :
        \/ TurnStart(s)
        \/ TurnChunk(s)
        \/ TurnDrain(s)
        \/ TurnEnd(s)
        \/ TurnClose(s)
        \/ TurnFinalize(s)

ConcurrentSpec == ConcurrentInit /\ [][ConcurrentNext]_vars

\* C23: however the steps of two concurrent turns of different sessions
\* interleave, a turn that has ended has streamed the increments, set the
\* final content, collected the reference set and stored the conversation id
\* of the same turn run alone.
C23_TurnsIndependent ==
    \A s \in Sessions :
        turns[s].pc \in {"done", "failed"} =>
            /\ turns[s].locals.streamed =
                  run_turn(turns[s].sent_conversation_id, turns[s].message_id,
                           turns[s].body).locals.streamed
            /\ turns[s].locals.content =
                  run_turn(turns[s].sent_conversation_id, turns[s].message_id,
                           turns[s].body).locals.content
            /\ turns[s].locals.references =
                  run_turn(turns[s].sent_conversation_id, turns[s].message_id,
                           turns[s].body).locals.references
            /\ turns[s].session_conversation_id =
                  run_turn(turns[s].sent_conversation_id, turns[s].message_id,
                           turns[s].body).locals.conversation_id

\* both turns have ended, each took steps while the other was in progress,
\* and their reference sets and conversation ids differ
C23_Witness ==
    /\ \A s \in Sessions : turns[s].pc = "done" /\ turns[s].overlapped
    /\ turns["s1"].locals.references # {}
    /\ turns["s2"].locals.references = {}
    /\ turns["s1"].session_conversation_id = <<>>
    /\ turns["s2"].session_conversation_id = ConvId

\* C24: a turn of an authorized user sends exactly one request to the
\* orchestrator: never more than one, and one once the stream has been read
\* from, whether the turn then ends normally or fails (status at or above
\* 400, transport failure, HTML payload, any other exception).
C24_ExactlyOneRequest ==
    /\ requests <= 1
    /\ (user_authorized /\ generator \notin {"none", "created"}) => requests = 1
    /\ (user_authorized /\ pc \in {"finally", "finalize", "done", "failed"}) => requests = 1

\* a turn that failed on a status at or above 400 has ended
C24_Witness ==
    /\ pc = "done"
    /\ response.status >= 400
    /\ exception = "Exception"
    /\ requests = 1

\* C25: when the generator is closed while its response is still open,
\* whatever the close raises is absorbed: the turn goes on to the final pass
\* and the update, it does not end with an exception, and its final content
\* is that of the same turn with a close that raises nothing.
C25_CloseWhileOpenAbsorbed ==
    close_outcome \in {"closed while open", "ignored GeneratorExit"} =>
        /\ pc \in {"finalize", "done"}
        /\ exception # "RuntimeError: async generator ignored GeneratorExit"
        /\ pc = "done" =>
              content = run_turn(payload.conversation_id, message_id,
                                 response.body).locals.content

\* the resolver raised at the third chunk, the generator was closed with its
\* response open, the close raised the RuntimeError of an ignored
\* GeneratorExit, and the turn has been updated with the error message
C25_Witness ==
    /\ close_outcome = "ignored GeneratorExit"
    /\ pc = "done"
    /\ chunk_count = 2
    /\ exception = "ValueError"
    /\ content = UserErrorMessage(message_id)

\* C26: the JSON body of the request of a turn has the keys conversation_id,
\* question, ask, client_principal_id, client_principal_name,
\* client_group_names and access_token, the last four with the values of the
\* caller's identity, and the key question_id exactly when the message has an id.
C26_PayloadCarriesIdentity ==
    generator # "none" =>
        /\ {"conversation_id", "question", "ask", "client_principal_id",
            "client_principal_name", "client_group_names", "access_token"}
              \subseteq DOMAIN payload
        /\ payload.client_principal_id = check_authorization.client_principal_id
        /\ payload.client_principal_name = check_authorization.client_principal_name
        /\ payload.client_group_names = check_authorization.client_group_names
        /\ payload.access_token = check_authorization.access_token
        /\ "question_id" \in DOMAIN payload <=> Truthy(message_id)

\* the raw targets of the matches the resolver was called on in this turn
MatchedTargets ==
    UNION {{Matches(resolver_log[n].text)[k].raw_href :
                k \in 1..Len(Matches(resolver_log[n].text))} :
              n \in 1..Len(resolver_log)}

\* the calls of a method made on a client of the blob of a relative target,
\* by their place in the log
CallsOn(method, raw_href) ==
    UNION {{<<n, k>> : k \in {i \in 1..Len(resolver_log[n].calls) :
                                resolver_log[n].calls[i] =
                                    [method |-> method,
                                     container |-> TargetBlob(raw_href)[1],
                                     blob |-> TargetBlob(raw_href)[2]]}} :
              n \in 1..Len(resolver_log)}

\* C27: within one turn the existence check and the signing call are made at
\* most once for each distinct raw target, however often the target occurs
\* in the chunks and in the final pass.
C27_OneLookupPerTarget ==
    \A raw_href \in MatchedTargets :
        (urlsplit(Strip(raw_href)).raised = "none" /\ ~IsPassThrough(raw_href)) =>
            /\ Cardinality(CallsOn("exists", raw_href)) <= 1
            /\ Cardinality(CallsOn("generate_sas_url", raw_href)) <= 1

\* a step of the loop in which a chunk is read and processed to the end of
\* the loop body without an exception
ChunkProcessed ==
    /\ pc = "loop"
    /\ Yielded(upstream) # <<>>
    /\ Head(Yielded(upstream)) # ReadError
    /\ upstream' = Tail(Yielded(upstream))
    /\ exception' = "none"

\* C28: after every processed chunk that does not contain the full sentinel
\* the pending buffer is empty and the increments streamed from the chunks so
\* far, concatenated, are full_text.
C28_BufferFlushedEachChunk ==
    [][(ChunkProcessed /\ ~Contains(Head(Yielded(upstream)), TERMINATE_TOKEN)) =>
          /\ buffer' = <<>>
          /\ Join(Increments') = full_text']_vars

\* the targets of the links of a text
LinkTargets(text) == {Matches(text)[k].raw_href : k \in 1..Len(Matches(text))}

\* C29: when a turn completes without an exception, every URL of its
\* reference set is the target of a link of the final content.
C29_ReferencesOccurInContent ==
    (pc = "done" /\ Answering /\ exception = "none") =>
        references \subseteq LinkTargets(content)

(***************************************************************************)
(* The sequential turns of one user session: handle_message is called for  *)
(* message after message, and on_chat_resume when a stored chat is opened. *)
(***************************************************************************)
\* longest response body of a turn of the session, in chunks
MaxSessionChunks == 2

\* plain text, a conversation-id prefix, the sentinel and a transport failure
SessionFragments ==
    { <<"a">>,
      ConvId \o <<" ">>,
      <<"a", "T", "E", "R", "M", "I", "N", "A", "T", "E", "z">>,
      ReadError }

SessionResponses ==
    {[status |-> 200, body |-> b] :
        b \in UNION {[1..n -> SessionFragments] : n \in 0..MaxSessionChunks}}
        \cup {[status |-> 500, body |-> << <<"a">> >>]}

SessionInit ==
    /\ user_authorized \in BOOLEAN
    /\ session_conversation_id = None
    /\ blobs = {}
    /\ sas_available = TRUE
    /\ NoTurnInProgress
    /\ ComponentsIdle
    /\ selection = NoSelection
    /\ turns = NoTurns

\* handle_message has returned or raised; the next message of the session
\* arrives: the locals of the turn are gone, the session keeps what it stores
NextTurn ==
    /\ pc \in {"done", "failed"}
    /\ message_id' = <<"m", "1">>
    /\ message_content' = <<"q">>
    /\ payload' = None
    /\ headers' = None
    /\ response' = NoResponse
    /\ pc' = "idle"
    /\ generator' = "none"
    /\ upstream' = <<>>
    /\ conversation_id' = <<>>
    /\ buffer' = <<>>
    /\ full_text' = <<>>
    /\ references' = {}
    /\ chunk_count' = 0
    /\ first_content_seen' = FALSE
    /\ loop_exit' = "none"
    /\ exception' = "none"
    /\ streamed' = <<>>
    /\ content' = <<>>
    /\ resolver_log' = <<>>
    /\ requests' = 0
    /\ close_outcome' = "open"
    /\ UNCHANGED <<component_vars, user_authorized, session_conversation_id, blobs, sas_available,
                   selection, turns>>

\* on_chat_resume (app.py:212-214): the id of the thread is stored
OnChatResume ==
    /\ pc = "idle"
    /\ session_conversation_id' = ResumedThread
    /\ UNCHANGED <<component_vars, user_authorized, message_id, message_content, payload, headers,
                   response, blobs, sas_available, pc, generator, upstream,
                   conversation_id, buffer, full_text, references, chunk_count,
                   first_content_seen, loop_exit, exception, streamed, content,
                   resolver_log, requests, close_outcome, selection, turns>>

SessionNext ==
    \/ RejectUnauthorized
    \/ Start(SessionResponses)
    \/ RequestFails
    \/ ReceiveChunk
    \/ StreamFails
    \/ StreamEnds
    \/ DrainChunk
    \/ DrainFails
    \/ DrainEnds
    \/ CloseGenerator
    \/ Finalize
    \/ NextTurn
    \/ OnChatResume

SessionSpec == SessionInit /\ [][SessionNext]_vars

\* the id the session stores, empty when it stores none
StoredId ==
    IF Truthy(session_conversation_id) THEN session_conversation_id ELSE <<>>

\* the conversation ids the chunks of the response begin with
IdsInStream ==
    {UUID_REGEX_match(response.body[i]).conv_id :
        i \in {j \in 1..Len(response.body) :
                  response.body[j] # ReadError /\ UUID_REGEX_match(response.body[j]).ok}}

\* C30: the session stores no id at first; the conversation id sent in a
\* turn is the id the session stores; and the stored id changes only when
\* on_chat_resume stores the thread id or when a turn stores an id extracted
\* from its stream, so that a turn in which no id is extracted, an
\* unauthorized or a failed one included, leaves it unchanged.
C30_SentIdIsStoredId ==
    /\ StoredId = <<>>
    /\ [][/\ (pc = "idle" /\ pc' = "loop") => payload'.conversation_id = StoredId
          /\ StoredId' # StoredId =>
                \/ pc = "idle" /\ pc' = "idle" /\ StoredId' = ResumedThread
                \/ pc = "finalize" /\ StoredId' \in IdsInStream]_vars

\* a turn sends the id extracted from the stream of an earlier turn, before
\* it has read anything
C30_Witness ==
    /\ generator = "created"
    /\ payload.conversation_id = ConvId
    /\ session_conversation_id = ConvId

(***************************************************************************)
(* The feedback callbacks of src/feedback.py.  register_feedback_handlers  *)
(* is called once, at import (app.py:200-202): its two closure variables   *)
(* exist once in the process and every session's callbacks read and write  *)
(* them.  A callback runs up to its next await; the callbacks of the       *)
(* sessions interleave at the awaits.                                      *)
(***************************************************************************)
\* the callbacks started in one behaviour
MaxFeedbackActions == 3

\* Python None as the value of a payload key
Null == "<None>"

\* a key the payload does not hold
Absent == "<absent>"

\* not v, for a payload value
Falsy(v) == v \in {Null, ""}

\* dict.get(key, default) on a payload value
Get(value, default) == IF value = Absent THEN default ELSE value

\* the question id, conversation id and question of the answer on which the
\* feedback actions of a session hang (create_feedback_actions)
QuestionIdOf(s) == IF s = "s1" THEN "q1" ELSE "q2"

ConversationIdOf(s) == IF s = "s1" THEN "c1" ELSE "c2"

AskOf(s) == IF s = "s1" THEN "ask1" ELSE "ask2"

\* feedback.py:27-48: the payload of show_feedback_form, and one that lacks
\* the two ids
ShowPayloads(s) ==
    {[questionId |-> QuestionIdOf(s), conversationId |-> ConversationIdOf(s),
      ask |-> AskOf(s), is_positive |-> "1"],
     [questionId |-> Absent, conversationId |-> Absent,
      ask |-> AskOf(s), is_positive |-> "1"]}

\* the payloads of submit_feedback: the form may omit the ids, the question
\* and the thumb; the rating is a number or None (feedback.py:53-66)
SubmitPayloads(s) ==
    {[questionId |-> q, conversationId |-> c,
      ask |-> IF q = Absent THEN Absent ELSE AskOf(s),
      isPositive |-> IF q = Absent THEN Absent ELSE "1",
      rating |-> r, text |-> ""] :
        q \in {QuestionIdOf(s), Absent},
        c \in {ConversationIdOf(s), Absent},
        r \in {"5", Null}}

\* feedback.py:100-109: the context stored when a form is opened
FormContext(p) ==
    [set |-> TRUE,
     question_id |-> Get(p.questionId, "dummy-question-id"),
     conversation_id |-> Get(p.conversationId, "dummy-conversation-id"),
     ask |-> Get(p.ask, Null),
     is_positive |-> Get(p.is_positive, Null)]

\* feedback.py:133-148: the fields read from the payload, the missing ones
\* taken from the stored context when there is one
FilledFields(p, ctx) ==
    [question_id |->
        IF Falsy(Get(p.questionId, Null)) /\ ctx.set THEN ctx.question_id
        ELSE Get(p.questionId, Null),
     ask |->
        IF Falsy(Get(p.ask, Null)) /\ ctx.set THEN ctx.ask ELSE Get(p.ask, Null),
     conversation_id |->
        IF Falsy(Get(p.conversationId, Null)) /\ ctx.set THEN ctx.conversation_id
        ELSE Get(p.conversationId, Null),
     is_positive |->
        IF Get(p.isPositive, Null) = Null /\ ctx.set THEN ctx.is_positive
        ELSE Get(p.isPositive, Null),
     rating |-> Get(p.rating, Null),
     text |-> Get(p.text, "")]

\* the validation with the slip of not checking the question id
Validation_without_question_id(f, rating_enabled) ==
    IF Falsy(f.conversation_id) THEN "[app] Conversation ID is required."
    ELSE IF rating_enabled /\ f.rating = Null
    THEN "[app] Rating is required when USER_FEEDBACK_RATING is enabled."
    ELSE "ok"

\* feedback.py:150-156: the ValueError raised by the validation, "ok" when
\* none is
Validation(f, rating_enabled) ==
    IF Falsy(f.conversation_id) THEN "[app] Conversation ID is required."
    ELSE IF rating_enabled /\ f.rating = Null
    THEN "[app] Rating is required when USER_FEEDBACK_RATING is enabled."
    ELSE IF Falsy(f.question_id) THEN "[app] Ask ID is missing; cannot submit feedback."
    ELSE "ok"

\* no request to the orchestrator
NoRequest == [type |-> "none"]

\* orchestrator_client.py:146-156: the body posted to the orchestrator
FeedbackRequest(f) ==
    [type |-> "feedback", conversation_id |-> f.conversation_id,
     question_id |-> f.question_id, is_positive |-> f.is_positive,
     stars_rating |-> IF f.rating # Null THEN f.rating ELSE Absent,
     feedback_text |-> IF ~Falsy(f.text) THEN f.text ELSE Absent]

\* cl.context.emitter.send_toast(message, type), and no toast
Toast(message, type) == [message |-> message, type |-> type]

NoToast == [type |-> "none"]

\* the fields of a callback that reads none
NoFields == [question_id |-> Absent]

\* the callbacks started so far
FeedbackStarted ==
    Len(feedback_log) + Cardinality({s \in Sessions : feedback_tasks[s].pc # "idle"})

\* a callback of session s that has just been called
NewTask(s, handler, p) ==
    [pc |-> "called", session |-> s, handler |-> handler, payload |-> p,
     context |-> last_feedback_context, forms_before |-> Len(messages),
     fields |-> NoFields, request |-> NoRequest, toast |-> NoToast]

\* the callback of session s returns
Returns(s, task) ==
    /\ feedback_log' = Append(feedback_log, [task EXCEPT !.pc = "returned"])
    /\ feedback_tasks' = [feedback_tasks EXCEPT ![s] = NoTask]

\* feedback.py:169-170, 180-181 and 191-192: the form behind the handle, if
\* there is one, is removed; the callback waits for remove() to return
BeginRemove(s, task) ==
    IF feedback_msg # NoMessage
    THEN /\ messages' = [messages EXCEPT ![feedback_msg].removes = @ + 1]
         /\ feedback_tasks' = [feedback_tasks EXCEPT ![s] = [task EXCEPT !.pc = "removing"]]
         /\ UNCHANGED <<feedback_msg, feedback_log>>
    ELSE /\ Returns(s, task)
         /\ UNCHANGED <<feedback_msg, messages>>

\* the variables no feedback callback touches
outside_feedback == <<chat_vars, client_vars, conversations_vars, threads_vars>>

\* feedback.py:89-124: show_feedback_form
on_show_feedback_form(s, p) ==
    /\ feedback_tasks[s].pc = "idle"
    /\ FeedbackStarted < MaxFeedbackActions
    /\ IF ~FEEDBACK_RATING
       THEN /\ Returns(s, [NewTask(s, "show_feedback_form", p)
                              EXCEPT !.toast = Toast("Feedback form is disabled.", "info")])
            /\ UNCHANGED <<feedback_msg, last_feedback_context, messages>>
       ELSE /\ last_feedback_context' = FormContext(p)
            /\ messages' = Append(messages, [session |-> s, context |-> FormContext(p),
                                             removes |-> 0])
            /\ feedback_msg' = Len(messages) + 1
            /\ Returns(s, NewTask(s, "show_feedback_form", p))
    /\ UNCHANGED <<FEEDBACK_RATING, outside_feedback>>

\* feedback.py:131-167 and 179-186: submit_feedback up to its first await,
\* which is the request when the fields are valid and the removal of the
\* form, in the except block, when they are not
handle_feedback(s, p) ==
    /\ feedback_tasks[s].pc = "idle"
    /\ FeedbackStarted < MaxFeedbackActions
    /\ LET f == FilledFields(p, last_feedback_context)
           v == Validation(f, FEEDBACK_RATING)
           task == [NewTask(s, "submit_feedback", p) EXCEPT !.fields = f]
       IN IF v = "ok"
          THEN /\ feedback_tasks' =
                      [feedback_tasks EXCEPT ![s] =
                          [task EXCEPT !.pc = "posting", !.request = FeedbackRequest(f)]]
               /\ UNCHANGED <<feedback_msg, messages, feedback_log>>
          ELSE BeginRemove(s, [task EXCEPT !.toast = Toast(v, "error")])
    /\ UNCHANGED <<FEEDBACK_RATING, last_feedback_context, outside_feedback>>

\* feedback.py:159-177 and orchestrator_client.py:158-162: the request
\* returns True or raises on a status of 400 and more; either way the form
\* behind the handle is removed next
PostReturns(s) ==
    /\ feedback_tasks[s].pc = "posting"
    /\ \E toast \in {Toast("Thank you for your feedback!", "success"),
                     Toast("Error calling orchestrator for feedback.", "error")} :
          BeginRemove(s, [feedback_tasks[s] EXCEPT !.toast = toast])
    /\ UNCHANGED <<FEEDBACK_RATING, last_feedback_context, outside_feedback>>

\* feedback.py:171, 182 and 193: remove() has returned, the handle is
\* dropped, whatever it is by now, and the callback returns
RemoveReturns(s) ==
    /\ feedback_tasks[s].pc = "removing"
    /\ feedback_msg' = NoMessage
    /\ Returns(s, feedback_tasks[s])
    /\ UNCHANGED <<FEEDBACK_RATING, last_feedback_context, messages, outside_feedback>>

\* feedback.py:188-192: close_feedback_popup up to its await
close_feedback_handler(s) ==
    /\ feedback_tasks[s].pc = "idle"
    /\ FeedbackStarted < MaxFeedbackActions
    /\ BeginRemove(s, NewTask(s, "close_feedback_popup", [none |-> Absent]))
    /\ UNCHANGED <<FEEDBACK_RATING, last_feedback_context, outside_feedback>>

FeedbackInit ==
    /\ ChatIdle
    /\ FEEDBACK_RATING \in BOOLEAN
    /\ NoFeedbackCalls
    /\ NoClientCalls
    /\ NoConversations
    /\ NoThreads

FeedbackNext ==
    \/ \E s \in Sessions : \E p \in ShowPayloads(s) : on_show_feedback_form(s, p)
    \/ \E s \in Sessions : \E p \in SubmitPayloads(s) : handle_feedback(s, p)
    \/ \E s \in Sessions : PostReturns(s)
    \/ \E s \in Sessions : RemoveReturns(s)
    \/ \E s \in Sessions : close_feedback_handler(s)

FeedbackSpec == FeedbackInit /\ [][FeedbackNext]_vars

\* the submit_feedback calls that have returned
Submitted == {i \in 1..Len(feedback_log) : feedback_log[i].handler = "submit_feedback"}

\* the value a submit_feedback call works with for a key of its payload: that
\* of the payload, or that of the context stored when the call was made if
\* the payload has none
Effective(value, e, key) ==
    IF Falsy(Get(value, Null)) /\ e.context.set THEN e.context[key] ELSE Get(value, Null)

\* whether a call has, after the filling, a conversation id, a question id
\* and, when rating is enabled, a rating
Complete(e) ==
    /\ ~Falsy(Effective(e.payload.conversationId, e, "conversation_id"))
    /\ ~Falsy(Effective(e.payload.questionId, e, "question_id"))
    /\ (FEEDBACK_RATING => e.payload.rating \notin {Null, Absent})

\* C31: handle_feedback sends the feedback request to the orchestrator exactly
\* when, after the missing fields are filled from the stored context, a
\* conversation id and a question id are present and, with rating enabled, a
\* rating is; otherwise it sends nothing and returns an error toast.
C31_CallOnlyWhenComplete ==
    /\ \A i \in Submitted :
          /\ (feedback_log[i].request # NoRequest) <=> Complete(feedback_log[i])
          /\ ~Complete(feedback_log[i]) => feedback_log[i].toast.type = "error"
    /\ \A s \in Sessions :
          feedback_tasks[s].pc = "posting" => Complete(feedback_tasks[s])

\* a submit with a rating and a conversation id but no question id, no form
\* having been opened, has been refused, and another has been sent
C31_Witness ==
    /\ \E i \in Submitted :
          /\ feedback_log[i].request = NoRequest
          /\ feedback_log[i].toast.type = "error"
          /\ feedback_log[i].payload.questionId = Absent
          /\ feedback_log[i].payload.conversationId # Absent
          /\ feedback_log[i].payload.rating = "5"
    /\ \E i \in Submitted : feedback_log[i].request # NoRequest

\* the forms a session had opened when a call was made, by handle
OwnForms(e) == {m \in 1..e.forms_before : messages[m].session = e.session}

\* the context of the form the session of a call had most recently opened
OwnContext(e) ==
    IF OwnForms(e) = {} THEN NoContext
    ELSE messages[CHOOSE m \in OwnForms(e) : \A o \in OwnForms(e) : o <= m].context

\* C32: the fields a submit_feedback call works with are those of its
\* payload, the missing ones taken from the form its own session opened last
\* and from no other session's form.
C32_FallbackFromOwnSession ==
    \A i \in Submitted :
        feedback_log[i].fields = FilledFields(feedback_log[i].payload, OwnContext(feedback_log[i]))

\* C33: no form is removed twice, and a form that is displayed is the one
\* behind the handle, so that a later submit or close removes it.
C33_FormsRemovable ==
    \A m \in 1..Len(messages) :
        /\ messages[m].removes <= 1
        /\ messages[m].removes = 0 => feedback_msg = m

(***************************************************************************)
(* get_cosmos_client (src/datalayer.py:54-69): the process-wide Cosmos     *)
(* client, created on first use under _init_lock.  The callers are the     *)
(* coroutines of the data layer; a caller is suspended while the lock is   *)
(* held by another.  The statements under the lock are separate steps, so  *)
(* that it is the lock, and not the absence of an await between them, that *)
(* keeps the callers apart.                                                *)
(***************************************************************************)
Callers == {"a", "b", "c"}

\* the calls each caller makes
MaxClientCalls == 2

\* a caller that has made no call
NewCaller == [pc |-> "idle", calls |-> 0, results |-> {}, returned_at |-> 0]

\* the variables get_cosmos_client does not touch
outside_client == <<chat_vars, feedback_vars, conversations_vars, threads_vars>>

\* datalayer.py:59, 63, 69: the call of c returns the client, at the line given
ReturnClient(c, client, line) ==
    client_calls' = [client_calls EXCEPT ![c] =
        [@ EXCEPT !.pc = "idle", !.results = @ \cup {client}, !.returned_at = line]]

\* the call of c moves on to the statement at pc
MoveTo(c, next_pc) == client_calls' = [client_calls EXCEPT ![c].pc = next_pc]

\* datalayer.py:58-59: a client that exists is returned without the lock
get_cosmos_client(c) ==
    /\ client_calls[c].pc = "idle"
    /\ client_calls[c].calls < MaxClientCalls
    /\ IF cosmos_client # NoClient
       THEN client_calls' = [client_calls EXCEPT ![c] =
               [@ EXCEPT !.calls = @ + 1, !.results = @ \cup {cosmos_client},
                         !.returned_at = 59]]
       ELSE client_calls' = [client_calls EXCEPT ![c] =
               [@ EXCEPT !.calls = @ + 1, !.pc = "acquire"]]
    /\ UNCHANGED <<credential, cosmos_client, init_lock, created, outside_client>>

\* the lock taken whether it is free or not
AcquireLock_without_waiting(c) ==
    /\ client_calls[c].pc = "acquire"
    /\ init_lock' = c
    /\ MoveTo(c, "check")
    /\ UNCHANGED <<credential, cosmos_client, created, outside_client>>

\* datalayer.py:61: async with _init_lock, entered when the lock is free
AcquireLock(c) ==
    /\ client_calls[c].pc = "acquire"
    /\ init_lock = "free"
    /\ init_lock' = c
    /\ MoveTo(c, "check")
    /\ UNCHANGED <<credential, cosmos_client, created, outside_client>>

\* datalayer.py:62-63: the client is looked for again under the lock
CheckAgain(c) ==
    /\ client_calls[c].pc = "check"
    /\ IF cosmos_client # NoClient
       THEN /\ ReturnClient(c, cosmos_client, 63)
            /\ init_lock' = "free"
       ELSE /\ MoveTo(c, "credential")
            /\ UNCHANGED init_lock
    /\ UNCHANGED <<credential, cosmos_client, created, outside_client>>

\* datalayer.py:65-66: the credential is constructed unless there is one
CreateCredential(c) ==
    /\ client_calls[c].pc = "credential"
    /\ IF credential = NoCredential
       THEN /\ credential' = created.credentials + 1
            /\ created' = [created EXCEPT !.credentials = @ + 1]
       ELSE UNCHANGED <<credential, created>>
    /\ MoveTo(c, "client")
    /\ UNCHANGED <<cosmos_client, init_lock, outside_client>>

\* datalayer.py:68-69: the client is constructed, stored and returned, and
\* the lock released
CreateClient(c) ==
    /\ client_calls[c].pc = "client"
    /\ cosmos_client' = created.clients + 1
    /\ created' = [created EXCEPT !.clients = @ + 1]
    /\ ReturnClient(c, created.clients + 1, 69)
    /\ init_lock' = "free"
    /\ UNCHANGED <<credential, outside_client>>

ClientInit ==
    /\ ChatIdle
    /\ NoFeedback
    /\ NoConversations
    /\ NoThreads
    /\ credential = NoCredential
    /\ cosmos_client = NoClient
    /\ init_lock = "free"
    /\ client_calls = [c \in Callers |-> NewCaller]
    /\ created = [credentials |-> 0, clients |-> 0]

ClientNext ==
    \/ \E c \in Callers : get_cosmos_client(c)
    \/ \E c \in Callers : AcquireLock(c)
    \/ \E c \in Callers : CheckAgain(c)
    \/ \E c \in Callers : CreateCredential(c)
    \/ \E c \in Callers : CreateClient(c)

ClientSpec == ClientInit /\ [][ClientNext]_vars

\* C34: however the calls of get_cosmos_client interleave, at most one
\* credential and at most one CosmosClient are constructed, and every call
\* that has returned has returned the client the process holds.
C34_OneClient ==
    /\ created.clients <= 1
    /\ created.credentials <= 1
    /\ \A c \in Callers :
          client_calls[c].results # {} =>
              /\ cosmos_client # NoClient
              /\ client_calls[c].results = {cosmos_client}

\* three callers have each got the client: one constructed it, one found it
\* under the lock after waiting for it, one found it without the lock
C34_Witness ==
    /\ \A c \in Callers : client_calls[c].results = {cosmos_client}
    /\ \E c \in Callers : client_calls[c].returned_at = 69
    /\ \E c \in Callers : client_calls[c].returned_at = 63
    /\ \E c \in Callers : client_calls[c].returned_at = 59

(***************************************************************************)
(* OrchestratorDataLayer (src/datalayer.py): list_threads and get_thread   *)
(* read the conversations container, which the orchestrator writes.  The   *)
(* container is a sequence of documents in the order of the query,         *)
(* ORDER BY c._ts DESC.                                                    *)
(***************************************************************************)
\* the documents of the container
MaxConversations == 3

\* c.isDeleted: not defined, false or true
IsDeletedValues == {"undefined", "false", "true"}

Principals == {"p1", "p2"}

\* the ids of the documents, by position in the container
ConversationId(i) == <<"t1", "t2", "t3", "t4", "t5">>[i]

\* the states of the container
Containers ==
    UNION {[1..n -> [principal_id : Principals, isDeleted : IsDeletedValues]] :
              n \in 0..MaxConversations}

\* the documents of a state of the container
Documents(c) ==
    [i \in 1..Len(c) |->
        [id |-> ConversationId(i), principal_id |-> c[i].principal_id,
         isDeleted |-> c[i].isDeleted]]

\* datalayer.py:76-95 and 117-123: the principal of a user of the users
\* container; u1 is stored with one, no other user is
PrincipalOf(user_id) == IF user_id = "u1" THEN "p1" ELSE Null

\* an attribute of the pagination: an int, the decimal string of an int, or
\* None (also an attribute the object does not have, read with getattr)
IntValue(n) == [type |-> "int", n |-> n]

StrValue(n) == [type |-> "str", n |-> n]

NoneValue == [type |-> "None", n |-> 0]

\* truthiness: None and 0 are falsy, a decimal string is not empty
TruthyValue(v) == v.type = "str" \/ (v.type = "int" /\ v.n # 0)

\* a or b
Or(a, b) == IF TruthyValue(a) THEN a ELSE b

\* datalayer.py:127-130: int(v) if v is a str
ToInt(v) == IF v.type = "str" THEN IntValue(v.n) ELSE v

\* datalayer.py:125 and 127-128
Skip(pagination) ==
    ToInt(Or(Or(pagination.offset, pagination.after), IntValue(0))).n

\* datalayer.py:126 and 129-130
Limit(pagination) ==
    ToInt(Or(Or(pagination.limit, pagination.first), IntValue(10))).n

\* datalayer.py:136-145, the WHERE clause: the documents of the principal
\* that are not deleted, in the order of the container
Listed(docs, principal_id) ==
    SelectSeq(docs, LAMBDA c : c.principal_id = principal_id /\ c.isDeleted \in {"undefined", "false"})

\* datalayer.py:143, OFFSET @skip LIMIT @limit
Page(rows, skip, limit) == SubSeq(rows, skip + 1, Min(skip + limit, Len(rows)))

\* datalayer.py:107-110
EmptyResponse ==
    [data |-> <<>>, hasNextPage |-> FALSE, startCursor |-> NoneValue, endCursor |-> NoneValue]

\* datalayer.py:159-181: the threads of the page and the page info
PaginatedResponse(rows, skip, limit, principal_id, user_id) ==
    [data |-> [i \in 1..Len(rows) |->
                  [id |-> rows[i].id, userId |-> principal_id, userIdentifier |-> user_id]],
     hasNextPage |-> Len(rows) = limit,
     startCursor |-> StrValue(skip),
     endCursor |-> IF Len(rows) = limit THEN StrValue(skip + Len(rows)) ELSE NoneValue]

\* datalayer.py:101-185
list_threads_result(docs, pagination, user_id) ==
    IF Falsy(user_id) \/ Falsy(PrincipalOf(user_id)) THEN EmptyResponse
    ELSE PaginatedResponse(
            Page(Listed(docs, PrincipalOf(user_id)), Skip(pagination), Limit(pagination)),
            Skip(pagination), Limit(pagination), PrincipalOf(user_id), user_id)

\* datalayer.py:286-296: the documents with the id
WithId(docs, thread_id) == SelectSeq(docs, LAMBDA c : c.id = thread_id)

\* no thread
NoThread == [id |-> Null]

\* get_thread with the slip of not looking at isDeleted
get_thread_result_with_deleted(docs, thread_id) ==
    IF WithId(docs, thread_id) = <<>> THEN NoThread
    ELSE [id |-> WithId(docs, thread_id)[1].id,
          userId |-> WithId(docs, thread_id)[1].principal_id]

\* datalayer.py:279-335
get_thread_result(docs, thread_id) ==
    IF WithId(docs, thread_id) = <<>> THEN NoThread
    ELSE IF WithId(docs, thread_id)[1].isDeleted = "true" THEN NoThread
    ELSE [id |-> WithId(docs, thread_id)[1].id,
          userId |-> WithId(docs, thread_id)[1].principal_id]

\* a pagination object with the attributes given
Pagination(offset, after, limit, first) ==
    [offset |-> offset, after |-> after, limit |-> limit, first |-> first]

\* the paginations of a call: no attribute set, a page size alone, a page
\* size and a cursor as strings, and both spellings of each at once
Paginations ==
    {Pagination(NoneValue, NoneValue, NoneValue, NoneValue),
     Pagination(NoneValue, NoneValue, NoneValue, IntValue(1)),
     Pagination(NoneValue, NoneValue, NoneValue, IntValue(2)),
     Pagination(NoneValue, StrValue(2), NoneValue, StrValue(1)),
     Pagination(IntValue(1), NoneValue, IntValue(1), NoneValue),
     Pagination(IntValue(1), StrValue(2), IntValue(1), IntValue(2))}

\* the users a listing is asked for: one with a principal, none, and one
\* that is not stored
UserIds == {Null, "u1", "u9"}

\* the arguments of a list_threads call
ListArguments ==
    {<<pagination, "u1">> : pagination \in Paginations}
        \cup {<<Pagination(NoneValue, NoneValue, NoneValue, IntValue(1)), user_id>> :
                  user_id \in UserIds}

ThreadIds == {"t1", "t2", "t3", "t9"}

\* the variables OrchestratorDataLayer does not touch
outside_conversations == <<chat_vars, feedback_vars, client_vars, threads_vars>>

\* a call of list_threads
list_threads(pagination, user_id) ==
    /\ data_layer_call' =
          [data_layer_call EXCEPT !.list_threads =
              [method |-> "list_threads", pagination |-> pagination, user_id |-> user_id,
               result |-> list_threads_result(conversations, pagination, user_id)]]
    /\ UNCHANGED <<conversations, outside_conversations>>

\* a call of get_thread
get_thread(thread_id) ==
    /\ data_layer_call' =
          [data_layer_call EXCEPT !.get_thread =
              [method |-> "get_thread", thread_id |-> thread_id,
               result |-> get_thread_result(conversations, thread_id)]]
    /\ UNCHANGED <<conversations, outside_conversations>>

ConversationsInit ==
    /\ ChatIdle
    /\ NoFeedback
    /\ NoClientCalls
    /\ NoThreads
    /\ \E c \in Containers : conversations = Documents(c)
    /\ data_layer_call = [list_threads |-> NoCall, get_thread |-> NoCall]

ConversationsNext ==
    \/ \E arguments \in ListArguments : list_threads(arguments[1], arguments[2])
    \/ \E thread_id \in ThreadIds : get_thread(thread_id)

ConversationsSpec == ConversationsInit /\ [][ConversationsNext]_vars

\* the conversations of a principal that are not deleted
Live(principal_id) ==
    {i \in 1..Len(conversations) :
        /\ conversations[i].principal_id = principal_id
        /\ conversations[i].isDeleted # "true"}

\* the list_threads call made, and what it skipped and returned
Listing == data_layer_call.list_threads

\* C35: list_threads says there is a next page only when the principal has a
\* conversation that is not deleted after those of the page returned, and an
\* end cursor it gives is the number skipped plus the number returned.
C35_NextPageExists ==
    Listing # NoCall =>
        /\ Listing.result.hasNextPage =>
              Cardinality(Live(PrincipalOf(Listing.user_id)))
                  > Skip(Listing.pagination) + Len(Listing.result.data)
        /\ Listing.result.endCursor # NoneValue =>
              Listing.result.endCursor.n = Skip(Listing.pagination) + Len(Listing.result.data)

\* the documents a result shows
Shown(thread) ==
    {i \in 1..Len(conversations) : conversations[i].id = thread.id}

\* C36: no thread returned by get_thread and no thread listed by
\* list_threads is a conversation whose isDeleted is true.
C36_DeletedNeverReturned ==
    /\ data_layer_call.get_thread # NoCall =>
          \A i \in Shown(data_layer_call.get_thread.result) :
              conversations[i].isDeleted # "true"
    /\ Listing # NoCall =>
          \A k \in 1..Len(Listing.result.data) :
              \A i \in Shown(Listing.result.data[k]) : conversations[i].isDeleted # "true"

\* get_thread was asked for a deleted conversation and returned none, and
\* list_threads returned a page of a principal one of whose conversations is
\* deleted
C36_Witness ==
    /\ data_layer_call.get_thread # NoCall
    /\ data_layer_call.get_thread.result = NoThread
    /\ \E i \in 1..Len(conversations) :
          /\ conversations[i].id = data_layer_call.get_thread.thread_id
          /\ conversations[i].isDeleted = "true"
    /\ Listing # NoCall
    /\ Listing.result.data # <<>>
    /\ \E i \in 1..Len(conversations) :
          /\ conversations[i].principal_id = PrincipalOf(Listing.user_id)
          /\ conversations[i].isDeleted = "true"

(***************************************************************************)
(* CosmosDBDataLayer.update_thread and delete_thread (src/data_layer.py).  *)
(* A thread is a document of the items container (partition: its own id)   *)
(* and an entry of the thread_list container (partition: the user id).     *)
(* Each request to Cosmos DB is awaited: a call is a sequence of steps,    *)
(* one request each, and the calls in progress interleave between them.    *)
(***************************************************************************)
\* the calls made in one behaviour
MaxThreadCalls == 3

\* the calls in progress at a time
Slots == {1, 2}

\* the arguments of the calls
CallThreadIds == {"t1"}

CallNames == {Null, "a", "b"}

CallUserIds == {Null, "u1", "u2"}

CallTags == {Null, "[x]"}

\* the users of the users container
StoredUsers == {"u1", "u2"}

\* no document read
NoDocument == [id |-> Null]

\* a call slot with no call in progress
IdleCall == [pc |-> "idle"]

\* a call that has just been made
NewCall(method, thread_id, name, user_id, tags) ==
    [pc |-> "called", method |-> method, thread_id |-> thread_id, name |-> name,
     user_id |-> user_id, tags |-> tags, thread |-> NoDocument, entry |-> NoDocument,
     name_changed |-> FALSE, tags_changed |-> FALSE, item_ids |-> {}]

\* read_item on the items container (partition: the thread id)
ThreadsWithId(thread_id) == {t \in threads_container : t.id = thread_id}

\* read_item on the thread_list container
EntriesWithId(thread_id, user_id) ==
    {e \in thread_list_container : e.id = thread_id /\ e.userId = user_id}

\* a or b, for a str or None
OrElse(a, b) == IF Falsy(a) THEN b ELSE a

\* the variables the calls on the containers do not touch
outside_threads == <<chat_vars, feedback_vars, client_vars, conversations_vars, feedback_call>>

\* the call in slot k goes on as task
Continue(k, task) ==
    thread_tasks' = [thread_tasks EXCEPT !.running[k] = task]

\* the call in slot k returns or raises
Ends(k) ==
    thread_tasks' = [thread_tasks EXCEPT !.running[k] = IdleCall]

\* a call is made in slot k
Begins(k) ==
    /\ thread_tasks.running[k].pc = "idle"
    /\ thread_tasks.started < MaxThreadCalls

\* data_layer.py:730-741: the thread read, with the changes asked for
Changed(t) ==
    [t EXCEPT
        !.name_changed = t.name # Null /\ t.thread.name # t.name,
        !.tags_changed = t.tags # Null,
        !.thread = [t.thread EXCEPT
            !.name = IF t.name # Null /\ t.thread.name # t.name THEN t.name ELSE @,
            !.tags = IF t.tags # Null THEN t.tags ELSE @]]

\* data_layer.py:717-744 and 776: update_thread reads the thread; a thread
\* that exists and is to change is replaced next, one that does not exist is
\* created for the user given, if one is given
update_thread_read(k, thread_id, name, user_id, tags) ==
    /\ Begins(k)
    /\ LET t == NewCall("update_thread", thread_id, name, user_id, tags)
           found == ThreadsWithId(thread_id)
           next ==
              IF found # {}
              THEN LET c == Changed([t EXCEPT !.thread = CHOOSE d \in found : TRUE])
                   IN IF c.name_changed \/ c.tags_changed
                      THEN [c EXCEPT !.pc = "replace_thread"]
                      ELSE IdleCall
              ELSE IF ~Falsy(user_id) THEN [t EXCEPT !.pc = "read_user"]
              ELSE IdleCall
       IN thread_tasks' = [thread_tasks EXCEPT !.started = @ + 1, !.running[k] = next]
    /\ UNCHANGED <<threads_container, thread_list_container, outside_threads>>

\* data_layer.py:745-753: the thread is replaced in the items container; the
\* entry is read next, in the partition of the user id given or else of the
\* thread's own.  replace_item raises when the thread is gone
update_thread_replace(k) ==
    LET t == thread_tasks.running[k]
    IN /\ t.pc = "replace_thread"
       /\ IF ThreadsWithId(t.thread_id) = {}
          THEN /\ Ends(k)
               /\ UNCHANGED threads_container
          ELSE /\ threads_container' =
                      (threads_container \ ThreadsWithId(t.thread_id)) \cup {t.thread}
               /\ IF ~Falsy(OrElse(t.user_id, t.thread.userId))
                  THEN Continue(k, [t EXCEPT !.pc = "read_entry"])
                  ELSE Ends(k)
       /\ UNCHANGED <<thread_list_container, outside_threads>>

\* data_layer.py:756-764 and 770-773: the entry is read and changed; without
\* an entry the call returns
update_thread_read_entry(k) ==
    LET t == thread_tasks.running[k]
        found == EntriesWithId(t.thread_id, OrElse(t.user_id, t.thread.userId))
    IN /\ t.pc = "read_entry"
       /\ IF found = {} THEN Ends(k)
          ELSE Continue(k,
                  [t EXCEPT !.pc = "replace_entry",
                            !.entry = [(CHOOSE e \in found : TRUE) EXCEPT
                                !.name = IF t.name_changed THEN t.name ELSE @,
                                !.tags = IF t.tags_changed THEN t.tags ELSE @]])
       /\ UNCHANGED <<threads_container, thread_list_container, outside_threads>>

\* data_layer.py:766-773: the entry is replaced; an entry that is gone is
\* not found, which is caught
update_thread_replace_entry(k) ==
    LET t == thread_tasks.running[k]
    IN /\ t.pc = "replace_entry"
       /\ IF EntriesWithId(t.entry.id, t.entry.userId) = {}
          THEN UNCHANGED thread_list_container
          ELSE thread_list_container' =
                  (thread_list_container \ EntriesWithId(t.entry.id, t.entry.userId))
                      \cup {t.entry}
       /\ Ends(k)
       /\ UNCHANGED <<threads_container, outside_threads>>

\* data_layer.py:777-782 and 810-811: the user is read; without the user
\* nothing is created
update_thread_read_user(k) ==
    LET t == thread_tasks.running[k]
    IN /\ t.pc = "read_user"
       /\ IF t.user_id \in StoredUsers
          THEN Continue(k, [t EXCEPT !.pc = "create_thread"])
          ELSE Ends(k)
       /\ UNCHANGED <<threads_container, thread_list_container, outside_threads>>

\* data_layer.py:785-796: the thread is created in the items container;
\* create_item raises when a thread with the id is there by now
update_thread_create(k) ==
    LET t == thread_tasks.running[k]
    IN /\ t.pc = "create_thread"
       /\ IF ThreadsWithId(t.thread_id) # {}
          THEN /\ Ends(k)
               /\ UNCHANGED threads_container
          ELSE /\ threads_container' = threads_container \cup
                      {[id |-> t.thread_id, name |-> OrElse(t.name, "New Thread"),
                        userId |-> t.user_id, tags |-> OrElse(t.tags, "[]")]}
               /\ Continue(k, [t EXCEPT !.pc = "create_entry"])
       /\ UNCHANGED <<thread_list_container, outside_threads>>

\* data_layer.py:799-808: the entry is created in the thread_list container;
\* create_item raises when the user has an entry with the id
update_thread_create_entry(k) ==
    LET t == thread_tasks.running[k]
    IN /\ t.pc = "create_entry"
       /\ IF EntriesWithId(t.thread_id, t.user_id) # {}
          THEN UNCHANGED thread_list_container
          ELSE thread_list_container' = thread_list_container \cup
                  {[id |-> t.thread_id, userId |-> t.user_id,
                    name |-> OrElse(t.name, "New Thread"), tags |-> OrElse(t.tags, "[]")]}
       /\ Ends(k)
       /\ UNCHANGED <<threads_container, outside_threads>>

\* data_layer.py:477-488: delete_thread reads the thread for its user id
delete_thread_read(k, thread_id) ==
    /\ Begins(k)
    /\ LET t == NewCall("delete_thread", thread_id, Null, Null, Null)
           found == ThreadsWithId(thread_id)
           user_id == IF found = {} THEN Null ELSE (CHOOSE d \in found : TRUE).userId
       IN thread_tasks' =
             [thread_tasks EXCEPT
                 !.started = @ + 1,
                 !.running[k] =
                     [t EXCEPT !.user_id = user_id,
                               !.pc = IF ~Falsy(user_id) THEN "delete_entry"
                                      ELSE "query_items"]]
    /\ UNCHANGED <<threads_container, thread_list_container, outside_threads>>

\* data_layer.py:489-496: the entry of the user is deleted, if it is there
delete_thread_entry(k) ==
    LET t == thread_tasks.running[k]
    IN /\ t.pc = "delete_entry"
       /\ thread_list_container' =
             thread_list_container \ EntriesWithId(t.thread_id, t.user_id)
       /\ Continue(k, [t EXCEPT !.pc = "query_items"])
       /\ UNCHANGED <<threads_container, outside_threads>>

\* data_layer.py:498-511: the ids of the items of the thread are queried
delete_thread_query(k) ==
    LET t == thread_tasks.running[k]
    IN /\ t.pc = "query_items"
       /\ Continue(k, [t EXCEPT !.pc = "delete_items",
                                !.item_ids = {d.id : d \in ThreadsWithId(t.thread_id)}])
       /\ UNCHANGED <<threads_container, thread_list_container, outside_threads>>

\* data_layer.py:512-516: the items are deleted
delete_thread_items(k) ==
    LET t == thread_tasks.running[k]
    IN /\ t.pc = "delete_items"
       /\ threads_container' = {d \in threads_container : d.id \notin t.item_ids}
       /\ Ends(k)
       /\ UNCHANGED <<thread_list_container, outside_threads>>

ThreadsInit ==
    /\ ChatIdle
    /\ NoFeedback
    /\ NoClientCalls
    /\ NoConversations
    /\ threads_container = {}
    /\ thread_list_container = {}
    /\ thread_tasks = [started |-> 0, running |-> [k \in Slots |-> IdleCall]]
    /\ feedback_call = NoCall

ThreadsNext ==
    \/ \E k \in Slots : \E thread_id \in CallThreadIds : \E name \in CallNames :
       \E user_id \in CallUserIds : \E tags \in CallTags :
          update_thread_read(k, thread_id, name, user_id, tags)
    \/ \E k \in Slots : update_thread_replace(k)
    \/ \E k \in Slots : update_thread_read_entry(k)
    \/ \E k \in Slots : update_thread_replace_entry(k)
    \/ \E k \in Slots : update_thread_read_user(k)
    \/ \E k \in Slots : update_thread_create(k)
    \/ \E k \in Slots : update_thread_create_entry(k)
    \/ \E k \in Slots : \E thread_id \in CallThreadIds : delete_thread_read(k, thread_id)
    \/ \E k \in Slots : delete_thread_entry(k)
    \/ \E k \in Slots : delete_thread_query(k)
    \/ \E k \in Slots : delete_thread_items(k)

ThreadsSpec == ThreadsInit /\ [][ThreadsNext]_vars

\* no call is in progress
NoCallRunning == \A k \in Slots : thread_tasks.running[k].pc = "idle"

\* C37: once the update_thread and delete_thread calls made have ended, a
\* thread is in the items container exactly when an entry with its id is in
\* the thread_list container, and the two have the same name and tags.
C37_ContainersAgree ==
    NoCallRunning =>
        /\ \A d \in threads_container :
              \E e \in thread_list_container :
                  e.id = d.id /\ e.name = d.name /\ e.tags = d.tags
        /\ \A e \in thread_list_container :
              \E d \in threads_container :
                  d.id = e.id /\ d.name = e.name /\ d.tags = e.tags

(***************************************************************************)
(* CosmosDBDataLayer.upsert_feedback and delete_feedback                   *)
(* (src/data_layer.py:268-331): the id upsert_feedback returns is parsed   *)
(* by delete_feedback to find the step again.  Ids are texts, character by *)
(* character.                                                              *)
(***************************************************************************)
\* the longest thread id and step id
MaxIdLen == 2

\* the characters of the ids: a hexadecimal letter and a digit, as in the
\* ids chainlit makes, two capitals and the colon
IdCharacters == {"a", "1", "T", "S", ":"}

\* the thread ids and step ids
Ids == UNION {[1..n -> IdCharacters] : n \in 1..MaxIdLen}

\* s.split(sep)
RECURSIVE Split(_, _)
Split(s, sep) ==
    IF Find(s, sep) = -1 THEN <<s>>
    ELSE <<Slice(s, 0, Find(s, sep))>> \o Split(Slice(s, Find(s, sep) + Len(sep), Len(s)), sep)

\* s.strip(chars): the characters of chars are removed from both ends
StripChars(s, chars) ==
    RStripChars(LStripChars(s, {chars[i] : i \in 1..Len(chars)}),
                {chars[i] : i \in 1..Len(chars)})

THREAD_PREFIX == <<"T", "H", "R", "E", "A", "D", "#">>

STEP_PREFIX == <<"S", "T", "E", "P", "#">>

\* data_layer.py:327: f"THREAD#{feedback.threadId}::STEP#{feedback.forId}"
FeedbackId(thread_id, for_id) ==
    THREAD_PREFIX \o thread_id \o <<":", ":">> \o STEP_PREFIX \o for_id

\* data_layer.py:270-272: the thread id and the step id read from a feedback
\* id; the unpacking raises ValueError unless the split gives two parts
ParseFeedbackId(feedback_id) ==
    IF Len(Split(feedback_id, <<":", ":">>)) # 2
    THEN [raised |-> "ValueError", thread_id |-> <<>>, step_id |-> <<>>]
    ELSE [raised |-> "none",
          thread_id |-> StripChars(Split(feedback_id, <<":", ":">>)[1], THREAD_PREFIX),
          step_id |-> StripChars(Split(feedback_id, <<":", ":">>)[2], STEP_PREFIX)]

\* the steps of a thread with an id: the query of data_layer.py:278-289 and
\* 311-321, in the partition of the thread
StepsWithId(thread_id, step_id) ==
    {step \in threads_container : step.threadId = thread_id /\ step.id = step_id}

\* the variables upsert_feedback and delete_feedback do not touch
outside_feedback_call ==
    <<chat_vars, feedback_vars, client_vars, conversations_vars,
      thread_list_container, thread_tasks>>

\* data_layer.py:301-331: the feedback is stored on the step and its id
\* returned
upsert_feedback ==
    /\ feedback_call.method = "none"
    /\ LET steps == StepsWithId(feedback_call.thread_id, feedback_call.for_id)
           id == FeedbackId(feedback_call.thread_id, feedback_call.for_id)
       IN IF steps = {}
          THEN /\ feedback_call' = [feedback_call EXCEPT !.method = "upsert_feedback",
                                                         !.raised = "ValueError"]
               /\ UNCHANGED threads_container
          ELSE /\ threads_container' =
                      (threads_container \ steps)
                          \cup {[step EXCEPT !.feedback = id] : step \in steps}
               /\ feedback_call' = [feedback_call EXCEPT !.method = "upsert_feedback",
                                                         !.feedback_id = id]
    /\ UNCHANGED outside_feedback_call

\* data_layer.py:268-299: delete_feedback on the id upsert_feedback returned
delete_feedback ==
    /\ feedback_call.method = "upsert_feedback"
    /\ feedback_call.raised = "none"
    /\ LET parsed == ParseFeedbackId(feedback_call.feedback_id)
           steps == StepsWithId(parsed.thread_id, parsed.step_id)
       IN /\ feedback_call' =
                [feedback_call EXCEPT
                    !.method = "delete_feedback", !.parsed = parsed,
                    !.raised = parsed.raised,
                    !.result = parsed.raised = "none" /\ steps # {}]
          /\ threads_container' =
                IF parsed.raised = "none"
                THEN (threads_container \ steps)
                         \cup {[step EXCEPT !.feedback = <<>>] : step \in steps}
                ELSE threads_container
    /\ UNCHANGED outside_feedback_call

\* a thread with one step, and the feedback call to come on it; the step is
\* missing in one state in two
FeedbackIdInit ==
    /\ ChatIdle
    /\ NoFeedback
    /\ NoClientCalls
    /\ NoConversations
    /\ thread_list_container = {}
    /\ thread_tasks = <<>>
    /\ \E thread_id \in Ids : \E for_id \in Ids : \E stored \in BOOLEAN :
          /\ threads_container =
                IF stored
                THEN {[id |-> for_id, threadId |-> thread_id, feedback |-> <<>>]}
                ELSE {}
          /\ feedback_call =
                [method |-> "none", thread_id |-> thread_id, for_id |-> for_id,
                 feedback_id |-> <<>>, raised |-> "none", result |-> FALSE,
                 parsed |-> [raised |-> "none", thread_id |-> <<>>, step_id |-> <<>>]]

FeedbackIdNext ==
    \/ upsert_feedback
    \/ delete_feedback

FeedbackIdSpec == FeedbackIdInit /\ [][FeedbackIdNext]_vars

\* C38: delete_feedback, given the id upsert_feedback returned, reads back
\* the thread id and the step id the feedback was stored with and removes
\* the feedback from that step.
C38_DeleteUndoesUpsert ==
    feedback_call.method = "delete_feedback" =>
        /\ feedback_call.raised = "none"
        /\ feedback_call.parsed.thread_id = feedback_call.thread_id
        /\ feedback_call.parsed.step_id = feedback_call.for_id
        /\ feedback_call.result
        /\ \A step \in threads_container : step.feedback = <<>>

====
